---- MODULE Spec2Model ----
(***************************************************************************)
(* Model of the pi-publish transformation: a session's branch entries are  *)
(* compiled into a document of turns by buildTrace and by                  *)
(* buildPublishedSession.  Strings are sequences of one-character strings, *)
(* so trimming, joining and truncating are computed, not assumed.          *)
(***************************************************************************)
EXTENDS Integers, Sequences, FiniteSets, TLC

VARIABLES header, entries, title, trace, published, locals, invocations,
          helperArgs, helperResult, legacy, titleCall, publishers, tmpFile, outFiles,
          gists

\* What the helpers, the older builder, generateTitle and the /publish handler
\* work on; the two builders never touch it.
restVars ==
  <<helperArgs, helperResult, legacy, titleCall, publishers, tmpFile, outFiles, gists>>

vars == <<header, entries, title, trace, published, locals, invocations, restVars>>

----------------------------------------------------------------------------
(* Strings *)

\* JS String.prototype.trim strips these from both ends.
IsSpace(c) == c \in {" ", "\n", "\t"}

RECURSIVE TrimStart(_)
TrimStart(s) ==
  IF s = <<>> THEN <<>>
  ELSE IF IsSpace(Head(s)) THEN TrimStart(Tail(s)) ELSE s

RECURSIVE TrimEnd(_)
TrimEnd(s) ==
  IF s = <<>> THEN <<>>
  ELSE IF IsSpace(s[Len(s)]) THEN TrimEnd(SubSeq(s, 1, Len(s) - 1)) ELSE s

Trim(s) == TrimEnd(TrimStart(s))

\* Array.prototype.join
RECURSIVE Join(_, _)
Join(parts, sep) ==
  IF parts = <<>> THEN <<>>
  ELSE IF Len(parts) = 1 THEN parts[1]
  ELSE parts[1] \o sep \o Join(Tail(parts), sep)

\* A local that was never assigned, or a Map lookup that found nothing.
Undefined == "undefined"

\* What a call that throws yields instead of a value.
TypeError == [error |-> "TypeError"]

Threw(v) == "error" \in DOMAIN v

----------------------------------------------------------------------------
(* transform.ts of the trace builder *)

IsTextBlock(b) == b.type = "text" /\ b.text # <<>>

\* textFrom with a slip: only the first text block is taken.
textFromFirstOnly(blocks) ==
  IF SelectSeq(blocks, IsTextBlock) = <<>> THEN <<>>
  ELSE SelectSeq(blocks, IsTextBlock)[1].text

textFrom(blocks) ==
  Join([i \in 1..Len(SelectSeq(blocks, IsTextBlock)) |->
          SelectSeq(blocks, IsTextBlock)[i].text], <<"\n">>)

promptFrom(msg) ==
  IF msg.content.kind = "string" THEN msg.content.text
  ELSE textFrom(msg.content.blocks)

\* Map.prototype.set with a slip: a key that is set keeps its value.
MapSetKeepsFirst(m, k, v) ==
  IF k \in DOMAIN m THEN m ELSE [x \in DOMAIN m \cup {k} |-> IF x = k THEN v ELSE m[x]]

\* Map.prototype.set
MapSet(m, k, v) == [x \in DOMAIN m \cup {k} |-> IF x = k THEN v ELSE m[x]]

\* Map.prototype.get
MapGet(m, k) == IF k \in DOMAIN m THEN m[k] ELSE Undefined

MapHas(m, k) == k \in DOMAIN m

EmptyMap == [x \in {} |-> Undefined]

\* hasToolCall with a slip: only the message's last block is looked at.
hasToolCallLastOnly(msg) ==
  msg.content # <<>> /\ msg.content[Len(msg.content)].type = "toolCall"

hasToolCall(msg) == \E i \in 1..Len(msg.content) : msg.content[i].type = "toolCall"

\* buildAction with a slip: a call without a result counts as failed.
buildActionPessimistic(block, toolResults) ==
  LET found  == MapHas(toolResults, block.id)
      result == MapGet(toolResults, block.id)
      action == [type |-> "action", name |-> block.name, args |-> block.arguments,
                 ok |-> IF found THEN ~result.isError ELSE FALSE]
  IN  IF found /\ textFrom(result.content) # <<>>
      THEN action @@ [output |-> textFrom(result.content)]
      ELSE action

\* buildAction with a slip: the output is attached only for an errored result
\* or a bash call.
buildActionErrorOrBash(block, toolResults) ==
  LET found  == MapHas(toolResults, block.id)
      result == MapGet(toolResults, block.id)
      action == [type |-> "action", name |-> block.name, args |-> block.arguments,
                 ok |-> IF found THEN ~result.isError ELSE TRUE]
  IN  IF found /\ (result.isError \/ block.name = "bash") /\ textFrom(result.content) # <<>>
      THEN action @@ [output |-> textFrom(result.content)]
      ELSE action

\* The toolCall case of buildCompletion's switch.
buildAction(block, toolResults) ==
  LET found  == MapHas(toolResults, block.id)
      result == MapGet(toolResults, block.id)
      action == [type |-> "action", name |-> block.name, args |-> block.arguments,
                 ok |-> IF found THEN ~result.isError ELSE TRUE]
  IN  IF found /\ textFrom(result.content) # <<>>
      THEN action @@ [output |-> textFrom(result.content)]
      ELSE action

\* completionBlock with a slip: emptiness is tested before trimming.
completionBlockTestsUntrimmed(acc, block, hasCall, toolResults) ==
  CASE block.type = "thinking" ->
         IF block.thinking # <<>>
         THEN [acc EXCEPT !.steps = Append(@, [type |-> "narration", text |-> Trim(block.thinking)])]
         ELSE acc
    [] block.type = "text" ->
         IF block.text = <<>> THEN acc
         ELSE IF hasCall
              THEN [acc EXCEPT !.steps = Append(@, [type |-> "narration", text |-> Trim(block.text)])]
              ELSE [acc EXCEPT !.responseParts = Append(@, Trim(block.text))]
    [] block.type = "toolCall" ->
         [acc EXCEPT !.steps = Append(@, buildAction(block, toolResults))]
    [] OTHER -> acc

\* One iteration of buildCompletion's inner loop over msg.content.
completionBlock(acc, block, hasCall, toolResults) ==
  CASE block.type = "thinking" ->
         IF Trim(block.thinking) # <<>>
         THEN [acc EXCEPT !.steps = Append(@, [type |-> "narration", text |-> Trim(block.thinking)])]
         ELSE acc
    [] block.type = "text" ->
         IF Trim(block.text) = <<>> THEN acc
         ELSE IF hasCall
              THEN [acc EXCEPT !.steps = Append(@, [type |-> "narration", text |-> Trim(block.text)])]
              ELSE [acc EXCEPT !.responseParts = Append(@, Trim(block.text))]
    [] block.type = "toolCall" ->
         [acc EXCEPT !.steps = Append(@, buildAction(block, toolResults))]
    [] OTHER -> acc

RECURSIVE completionBlocks(_, _, _, _, _)
completionBlocks(acc, content, i, hasCall, toolResults) ==
  IF i > Len(content) THEN acc
  ELSE completionBlocks(completionBlock(acc, content[i], hasCall, toolResults),
                        content, i + 1, hasCall, toolResults)

IsCallBlock(b) == b.type = "toolCall"

IsOtherBlock(b) == b.type # "toolCall"

\* completionMessage with a slip: the actions of a message are emitted after
\* its narration instead of where the calls stand.
completionMessageActionsLast(acc, msg, toolResults) ==
  IF msg.role # "assistant" THEN acc
  ELSE completionBlocks(acc, SelectSeq(msg.content, IsOtherBlock)
                               \o SelectSeq(msg.content, IsCallBlock),
                        1, hasToolCall(msg), toolResults)

\* One iteration of buildCompletion's outer loop over messages.
completionMessage(acc, msg, toolResults) ==
  IF msg.role # "assistant" THEN acc
  ELSE completionBlocks(acc, msg.content, 1, hasToolCall(msg), toolResults)

RECURSIVE completionMessages(_, _, _, _)
completionMessages(acc, messages, i, toolResults) ==
  IF i > Len(messages) THEN acc
  ELSE completionMessages(completionMessage(acc, messages[i], toolResults),
                          messages, i + 1, toolResults)

\* buildCompletion with a slip: the response parts are joined by one newline.
buildCompletionNewlineJoin(messages, toolResults) ==
  LET acc == completionMessages([steps |-> <<>>, responseParts |-> <<>>],
                                messages, 1, toolResults)
  IN  [steps |-> acc.steps, response |-> Join(acc.responseParts, <<"\n">>)]

buildCompletion(messages, toolResults) ==
  LET acc == completionMessages([steps |-> <<>>, responseParts |-> <<>>],
                                messages, 1, toolResults)
  IN  [steps |-> acc.steps, response |-> Join(acc.responseParts, <<"\n", "\n">>)]

\* Math.round of a non-negative quotient n / d (halves round up).
RoundDiv(n, d) == (2 * n + d) \div (2 * d)

MsPerSecond == 1000

\* metadataMessage with a slip: the usage of a message replaces the running
\* sums instead of adding to them.
metadataMessageOverwrites(acc, msg) ==
  LET a1 == IF msg.timestamp > acc.maxTs THEN [acc EXCEPT !.maxTs = msg.timestamp] ELSE acc
  IN  IF msg.role # "assistant" THEN a1
      ELSE LET a2 == IF "model" \in DOMAIN msg /\ msg.model # ""
                      THEN [a1 EXCEPT !.model = msg.model] ELSE a1
           IN  IF "usage" \in DOMAIN msg
               THEN [a2 EXCEPT !.inputTokens  = msg.usage.input,
                               !.outputTokens = msg.usage.output,
                               !.cost         = msg.usage.cost.total]
               ELSE [a2 EXCEPT !.threw = TRUE]

\* metadataMessage with a slip: only the timestamps of assistant messages move
\* the maximum.
metadataMessageAssistantTs(acc, msg) ==
  IF msg.role # "assistant" THEN acc
  ELSE LET a1 == IF msg.timestamp > acc.maxTs THEN [acc EXCEPT !.maxTs = msg.timestamp]
                 ELSE acc
           a2 == IF "model" \in DOMAIN msg /\ msg.model # ""
                 THEN [a1 EXCEPT !.model = msg.model] ELSE a1
       IN  IF "usage" \in DOMAIN msg
           THEN [a2 EXCEPT !.inputTokens  = @ + msg.usage.input,
                           !.outputTokens = @ + msg.usage.output,
                           !.cost         = @ + msg.usage.cost.total]
           ELSE [a2 EXCEPT !.threw = TRUE]

\* metadataMessage with a slip: the model is taken from every assistant message
\* that has the field, an empty one included.
metadataMessageAnyModel(acc, msg) ==
  LET a1 == IF msg.timestamp > acc.maxTs THEN [acc EXCEPT !.maxTs = msg.timestamp] ELSE acc
  IN  IF msg.role # "assistant" THEN a1
      ELSE LET a2 == IF "model" \in DOMAIN msg
                      THEN [a1 EXCEPT !.model = msg.model] ELSE a1
           IN  IF "usage" \in DOMAIN msg
               THEN [a2 EXCEPT !.inputTokens  = @ + msg.usage.input,
                               !.outputTokens = @ + msg.usage.output,
                               !.cost         = @ + msg.usage.cost.total]
               ELSE [a2 EXCEPT !.threw = TRUE]

\* One iteration of buildMetadata's loop.  Reading usage.input of a message
\* without usage throws a TypeError.
metadataMessage(acc, msg) ==
  LET a1 == IF msg.timestamp > acc.maxTs THEN [acc EXCEPT !.maxTs = msg.timestamp] ELSE acc
  IN  IF msg.role # "assistant" THEN a1
      ELSE LET a2 == IF "model" \in DOMAIN msg /\ msg.model # ""
                      THEN [a1 EXCEPT !.model = msg.model] ELSE a1
           IN  IF "usage" \in DOMAIN msg
               THEN [a2 EXCEPT !.inputTokens  = @ + msg.usage.input,
                               !.outputTokens = @ + msg.usage.output,
                               !.cost         = @ + msg.usage.cost.total]
               ELSE [a2 EXCEPT !.threw = TRUE]

RECURSIVE metadataMessages(_, _, _)
metadataMessages(acc, messages, i) ==
  IF i > Len(messages) \/ acc.threw THEN acc
  ELSE metadataMessages(metadataMessage(acc, messages[i]), messages, i + 1)

\* buildMetadata with a slip: an unset level is emitted as "off".
buildMetadataDefaultLevel(prompt, messages, thinkingLevel) ==
  LET acc == metadataMessages([model |-> "", inputTokens |-> 0, outputTokens |-> 0,
                               cost |-> 0, maxTs |-> prompt.timestamp, threw |-> FALSE],
                              messages, 1)
      metadata == [model |-> acc.model, inputTokens |-> acc.inputTokens,
                   outputTokens |-> acc.outputTokens, cost |-> acc.cost,
                   elapsed |-> RoundDiv(acc.maxTs - prompt.timestamp, MsPerSecond)]
  IN  IF acc.threw THEN TypeError
      ELSE metadata @@ [thinkingLevel |-> IF thinkingLevel # Undefined
                                          THEN thinkingLevel ELSE "off"]

buildMetadata(prompt, messages, thinkingLevel) ==
  LET acc == metadataMessages([model |-> "", inputTokens |-> 0, outputTokens |-> 0,
                               cost |-> 0, maxTs |-> prompt.timestamp, threw |-> FALSE],
                              messages, 1)
      metadata == [model |-> acc.model, inputTokens |-> acc.inputTokens,
                   outputTokens |-> acc.outputTokens, cost |-> acc.cost,
                   elapsed |-> RoundDiv(acc.maxTs - prompt.timestamp, MsPerSecond)]
  IN  IF acc.threw THEN TypeError
      ELSE IF thinkingLevel # Undefined
           THEN metadata @@ [thinkingLevel |-> thinkingLevel]
           ELSE metadata

\* traceEntry with a slip: a user message that arrives while the open turn has
\* no reply yet takes that turn's place instead of opening a new one.
traceEntryDropsEmptyTurn(st, entry) ==
  IF entry.type = "thinking_level_change"
  THEN [st EXCEPT !.currentThinkingLevel = entry.thinkingLevel]
  ELSE IF entry.type # "message" THEN st
  ELSE LET msg == entry.message
           s1  == IF msg.role = "toolResult"
                  THEN [st EXCEPT !.toolResults = MapSet(@, msg.toolCallId, msg)]
                  ELSE st
           new == [prompt |-> msg, messages |-> <<>>,
                   thinkingLevel |-> s1.currentThinkingLevel]
       IN  IF msg.role = "user"
           THEN IF s1.rawTurns # <<>> /\ s1.rawTurns[Len(s1.rawTurns)].messages = <<>>
                THEN [s1 EXCEPT !.rawTurns[Len(s1.rawTurns)] = new]
                ELSE [s1 EXCEPT !.rawTurns = Append(@, new)]
           ELSE IF s1.rawTurns # <<>>
                THEN [s1 EXCEPT !.rawTurns[Len(s1.rawTurns)].messages = Append(@, msg)]
                ELSE s1

\* traceEntry with a slip: an entry that is no message is read as a level
\* change, so an entry of another kind unsets the level.
traceEntryOtherUnsetsLevel(st, entry) ==
  IF entry.type # "message"
  THEN [st EXCEPT !.currentThinkingLevel =
                     IF "thinkingLevel" \in DOMAIN entry THEN entry.thinkingLevel
                     ELSE Undefined]
  ELSE LET msg == entry.message
           s1  == IF msg.role = "toolResult"
                  THEN [st EXCEPT !.toolResults = MapSet(@, msg.toolCallId, msg)]
                  ELSE st
       IN  IF msg.role = "user"
           THEN [s1 EXCEPT !.rawTurns = Append(@, [prompt |-> msg, messages |-> <<>>,
                                                   thinkingLevel |-> s1.currentThinkingLevel])]
           ELSE IF s1.rawTurns # <<>>
                THEN [s1 EXCEPT !.rawTurns[Len(s1.rawTurns)].messages = Append(@, msg)]
                ELSE s1

\* One iteration of buildTrace's loop over the entries.  `current` aliases the
\* last element of rawTurns, so a push to current.messages lands there.
traceEntry(st, entry) ==
  IF entry.type = "thinking_level_change"
  THEN [st EXCEPT !.currentThinkingLevel = entry.thinkingLevel]
  ELSE IF entry.type # "message" THEN st
  ELSE LET msg == entry.message
           s1  == IF msg.role = "toolResult"
                  THEN [st EXCEPT !.toolResults = MapSet(@, msg.toolCallId, msg)]
                  ELSE st
       IN  IF msg.role = "user"
           THEN [s1 EXCEPT !.rawTurns = Append(@, [prompt |-> msg, messages |-> <<>>,
                                                   thinkingLevel |-> s1.currentThinkingLevel])]
           ELSE IF s1.rawTurns # <<>>
                THEN [s1 EXCEPT !.rawTurns[Len(s1.rawTurns)].messages = Append(@, msg)]
                ELSE s1

RECURSIVE traceEntries(_, _, _)
traceEntries(st, es, i) ==
  IF i > Len(es) THEN st ELSE traceEntries(traceEntry(st, es[i]), es, i + 1)

\* The locals buildTrace declares before its loop.
FreshScan == [currentThinkingLevel |-> Undefined, toolResults |-> EmptyMap, rawTurns |-> <<>>]

\* traceScan with a slip: the reasoning level and the result index are kept
\* from the invocation before, as if declared outside the function.
traceScanResumes(es) ==
  traceEntries([currentThinkingLevel |-> locals.currentThinkingLevel,
                toolResults |-> locals.toolResults, rawTurns |-> <<>>], es, 1)

traceScan(es) == traceEntries(FreshScan, es, 1)

traceTurn(raw, toolResults) ==
  [prompt     |-> promptFrom(raw.prompt),
   completion |-> buildCompletion(raw.messages, toolResults),
   metadata   |-> buildMetadata(raw.prompt, raw.messages, raw.thinkingLevel)]

RECURSIVE SumCost(_, _)
SumCost(turns, i) ==
  IF i > Len(turns) THEN 0 ELSE turns[i].metadata.cost + SumCost(turns, i + 1)

buildTrace(h, es, t) ==
  LET scan  == traceScan(es)
      turns == [i \in 1..Len(scan.rawTurns) |-> traceTurn(scan.rawTurns[i], scan.toolResults)]
  IN  IF \E i \in 1..Len(turns) : Threw(turns[i].metadata) THEN TypeError
      ELSE [id |-> h.id, title |-> t, date |-> h.timestamp,
            totalCost |-> SumCost(turns, 1), turns |-> turns]

----------------------------------------------------------------------------
(* transform.ts of the published-session builder *)

MAX_TOOL_OUTPUT_BYTES == 4096

\* os.homedir() and its realpath on the machine that runs the extension.
home == <<"/", "h">>

homeReal == <<"/", "r">>

homePrefixes == IF home = homeReal THEN <<home>> ELSE <<home, homeReal>>

StartsWith(s, p) == Len(s) >= Len(p) /\ SubSeq(s, 1, Len(p)) = p

\* String.prototype.slice(n) for 0 <= n
SliceFrom(s, n) == SubSeq(s, n + 1, Len(s))

\* String.prototype.split on a one-character separator
RECURSIVE SplitAcc(_, _, _, _)
SplitAcc(s, sep, i, cur) ==
  IF i > Len(s) THEN <<cur>>
  ELSE IF s[i] = sep THEN <<cur>> \o SplitAcc(s, sep, i + 1, <<>>)
  ELSE SplitAcc(s, sep, i + 1, Append(cur, s[i]))

Split(s, sep) == SplitAcc(s, sep, 1, <<>>)

NonEmpty(x) == x # <<>>

homeShorten(fullPath, prefix) ==
  LET segments == SelectSeq(Split(SliceFrom(fullPath, Len(prefix) + 1), "/"), NonEmpty)
  IN  IF Len(segments) <= 3
      THEN <<"~", "/">> \o Join(segments, <<"/">>)
      ELSE <<"~", "/", ".", ".", ".", "/">>
             \o Join(SubSeq(segments, Len(segments) - 2, Len(segments)), <<"/">>)

RECURSIVE homeLoop(_, _)
homeLoop(fullPath, i) ==
  IF i > Len(homePrefixes) THEN fullPath
  ELSE IF StartsWith(fullPath, homePrefixes[i] \o <<"/">>) \/ fullPath = homePrefixes[i]
       THEN homeShorten(fullPath, homePrefixes[i])
       ELSE homeLoop(fullPath, i + 1)

\* shortenPath with a slip: the home directory is tried before the working
\* directory.
shortenPathHomeFirst(fullPath, cwd) ==
  IF homeLoop(fullPath, 1) # fullPath THEN homeLoop(fullPath, 1)
  ELSE IF StartsWith(fullPath, cwd \o <<"/">>) THEN SliceFrom(fullPath, Len(cwd) + 1)
  ELSE IF fullPath = cwd THEN <<".">>
  ELSE fullPath

shortenPath(fullPath, cwd) ==
  IF StartsWith(fullPath, cwd \o <<"/">>) THEN SliceFrom(fullPath, Len(cwd) + 1)
  ELSE IF fullPath = cwd THEN <<".">>
  ELSE homeLoop(fullPath, 1)

\* Tool arguments are an object: a sequence of <<key, value>> pairs in insertion
\* order, keys distinct, keys and values strings.
HasArg(args, k) == \E i \in 1..Len(args) : args[i][1] = k

ArgOf(args, k) == args[CHOOSE i \in 1..Len(args) : args[i][1] = k][2]

\* args.k is truthy
ArgTruthy(args, k) == HasArg(args, k) /\ ArgOf(args, k) # <<>>

KeyPath == <<"p", "a", "t", "h">>

KeyCommand == <<"c", "o", "m", "m", "a", "n", "d">>

KeyOldText == <<"o", "l", "d", "T", "e", "x", "t">>

KeyNewText == <<"n", "e", "w", "T", "e", "x", "t">>

\* JSON.stringify of a string: quotes, with the characters JSON escapes.
JsonChar(c) ==
  CASE c = "\n" -> <<"\\", "n">>
    [] c = "\t" -> <<"\\", "t">>
    [] c = "\"" -> <<"\\", "\"">>
    [] c = "\\" -> <<"\\", "\\">>
    [] OTHER -> <<c>>

RECURSIVE JsonChars(_)
JsonChars(s) == IF s = <<>> THEN <<>> ELSE JsonChar(Head(s)) \o JsonChars(Tail(s))

JsonString(s) == <<"\"">> \o JsonChars(s) \o <<"\"">>

\* JSON.stringify of an arguments object
JsonStringify(args) ==
  <<"{">> \o Join([i \in 1..Len(args) |->
                    JsonString(args[i][1]) \o <<":">> \o JsonString(args[i][2])], <<",">>)
         \o <<"}">>

MaxArgsChars == 200

summarizeToolArgs(toolName, args, cwd) ==
  CASE toolName \in {"read", "write", "edit"} ->
         IF ArgTruthy(args, KeyPath) THEN shortenPath(ArgOf(args, KeyPath), cwd) ELSE <<>>
    [] toolName = "bash" ->
         IF ArgTruthy(args, KeyCommand) THEN ArgOf(args, KeyCommand) ELSE <<>>
    [] OTHER ->
         LET str == JsonStringify(args)
         IN  IF Len(str) > MaxArgsChars
             THEN SubSeq(str, 1, MaxArgsChars) \o <<"U+2026">> ELSE str

IsTextContent(c) == c.type = "text" /\ "text" \in DOMAIN c /\ c.text # <<>>

extractTextContent(content) ==
  Join([i \in 1..Len(SelectSeq(content, IsTextContent)) |->
          SelectSeq(content, IsTextContent)[i].text], <<"\n">>)

\* UTF-8 width of a character; a character outside ASCII is written U+hex.
ByteLen(c) ==
  CASE c = "U+00E9" -> 2
    [] c \in {"U+2026", "U+FFFD"} -> 3
    [] OTHER -> 1

\* Buffer.byteLength, summed by halves to keep the evaluation shallow
RECURSIVE ByteLength(_)
ByteLength(s) ==
  IF s = <<>> THEN 0
  ELSE IF Len(s) = 1 THEN ByteLen(s[1])
  ELSE ByteLength(SubSeq(s, 1, Len(s) \div 2))
         + ByteLength(SubSeq(s, Len(s) \div 2 + 1, Len(s)))

\* How many leading characters of s fit whole in n bytes, known to lie between
\* lo and hi
RECURSIVE WholeChars(_, _, _, _)
WholeChars(s, n, lo, hi) ==
  IF lo >= hi THEN lo
  ELSE LET mid == (lo + hi + 1) \div 2
       IN  IF ByteLength(SubSeq(s, 1, mid)) <= n
           THEN WholeChars(s, n, mid, hi)
           ELSE WholeChars(s, n, lo, mid - 1)

\* Buffer.from(s).subarray(0, n).toString("utf8"): the characters that fit whole,
\* and U+FFFD for a character the cut splits.
BytePrefix(s, n) ==
  LET whole == WholeChars(s, n, 0, Len(s))
  IN  IF whole = Len(s) \/ ByteLength(SubSeq(s, 1, whole)) >= n
      THEN SubSeq(s, 1, whole)
      ELSE SubSeq(s, 1, whole) \o <<"U+FFFD">>

\* String.prototype.lastIndexOf for one character, as a JS index (-1: none)
LastIndexOf(s, c) ==
  IF \E i \in 1..Len(s) : s[i] = c
  THEN (CHOOSE i \in 1..Len(s) : s[i] = c /\ \A j \in (i + 1)..Len(s) : s[j] # c) - 1
  ELSE -1

TruncationMarker ==
  <<"\n", "U+2026", "[", "t", "r", "u", "n", "c", "a", "t", "e", "d", "]">>

truncateOutput(output) ==
  IF ByteLength(output) <= MAX_TOOL_OUTPUT_BYTES THEN output
  ELSE LET truncated   == BytePrefix(output, MAX_TOOL_OUTPUT_BYTES)
           lastNewline == LastIndexOf(truncated, "\n")
       IN  (IF lastNewline > 0 THEN SubSeq(truncated, 1, lastNewline) ELSE truncated)
             \o TruncationMarker

\* Math.round(n * 1e6) / 1e6, costs being counted in tenths of a millionth.
roundCost(n) == RoundDiv(n, 10) * 10

\* sessionEntry with a slip: a level change is taken only while no level is set.
sessionEntryFirstLevelWins(st, entry) ==
  IF entry.type = "thinking_level_change" /\ "thinkingLevel" \in DOMAIN entry
       /\ entry.thinkingLevel # ""
  THEN IF st.currentThinkingLevel = Undefined
       THEN [st EXCEPT !.currentThinkingLevel = entry.thinkingLevel] ELSE st
  ELSE IF entry.type = "message" /\ "message" \in DOMAIN entry
  THEN LET msg == entry.message
           s1  == IF msg.role = "user"
                  THEN [st EXCEPT !.thinkingLevelAtUser =
                                     MapSet(@, Len(st.messages), st.currentThinkingLevel)]
                  ELSE st
           s2  == IF msg.role = "toolResult" /\ "toolCallId" \in DOMAIN msg
                  THEN [s1 EXCEPT !.toolResults = MapSet(@, msg.toolCallId, msg)]
                  ELSE s1
       IN  [s2 EXCEPT !.messages = Append(@, msg)]
  ELSE st

\* One iteration of the entry loop of buildPublishedSession.  Keys of
\* thinkingLevelAtUser are 0-based positions in `messages`.
sessionEntry(st, entry) ==
  IF entry.type = "thinking_level_change" /\ "thinkingLevel" \in DOMAIN entry
       /\ entry.thinkingLevel # ""
  THEN [st EXCEPT !.currentThinkingLevel = entry.thinkingLevel]
  ELSE IF entry.type = "message" /\ "message" \in DOMAIN entry
  THEN LET msg == entry.message
           s1  == IF msg.role = "user"
                  THEN [st EXCEPT !.thinkingLevelAtUser =
                                     MapSet(@, Len(st.messages), st.currentThinkingLevel)]
                  ELSE st
           s2  == IF msg.role = "toolResult" /\ "toolCallId" \in DOMAIN msg
                  THEN [s1 EXCEPT !.toolResults = MapSet(@, msg.toolCallId, msg)]
                  ELSE s1
       IN  [s2 EXCEPT !.messages = Append(@, msg)]
  ELSE st

RECURSIVE sessionEntries(_, _, _)
sessionEntries(st, es, i) ==
  IF i > Len(es) THEN st ELSE sessionEntries(sessionEntry(st, es[i]), es, i + 1)

sessionScan(es) ==
  sessionEntries([messages |-> <<>>, toolResults |-> EmptyMap,
                  currentThinkingLevel |-> Undefined,
                  thinkingLevelAtUser |-> EmptyMap], es, 1)

\* splitMessage with a slip: a user message is pushed onto `current` instead of
\* replacing it.
splitMessageKeepsCurrent(st, msg, i) ==
  IF msg.role = "user"
  THEN [rawTurns |-> IF st.current # <<>>
                     THEN Append(st.rawTurns, [messages |-> st.current,
                                               userIndex |-> st.currentUserIndex])
                     ELSE st.rawTurns,
        current |-> Append(st.current, msg),
        currentUserIndex |-> i]
  ELSE [st EXCEPT !.current = Append(@, msg)]

\* One iteration of the loop that splits `messages` into raw turns (i is 0-based).
splitMessage(st, msg, i) ==
  IF msg.role = "user"
  THEN [rawTurns |-> IF st.current # <<>>
                     THEN Append(st.rawTurns, [messages |-> st.current,
                                               userIndex |-> st.currentUserIndex])
                     ELSE st.rawTurns,
        current |-> <<msg>>, currentUserIndex |-> i]
  ELSE [st EXCEPT !.current = Append(@, msg)]

RECURSIVE splitMessages(_, _, _)
splitMessages(st, messages, i) ==
  IF i >= Len(messages) THEN st
  ELSE splitMessages(splitMessage(st, messages[i + 1], i), messages, i + 1)

splitTurns(messages) ==
  LET st == splitMessages([rawTurns |-> <<>>, current |-> <<>>, currentUserIndex |-> -1],
                          messages, 0)
  IN  IF st.current # <<>>
      THEN Append(st.rawTurns, [messages |-> st.current, userIndex |-> st.currentUserIndex])
      ELSE st.rawTurns

\* String(block.f ?? "")
FieldOr(block, f, default) == IF f \in DOMAIN block THEN block[f] ELSE default

\* toolStep with a slip: the output of every result is attached, whatever the
\* tool and the outcome.
toolStepAlwaysOutput(block, toolResults, cwd) ==
  LET toolCallId == FieldOr(block, "id", "")
      toolName   == FieldOr(block, "name", "")
      args       == FieldOr(block, "arguments", <<>>)
      found      == MapHas(toolResults, toolCallId)
      result     == MapGet(toolResults, toolCallId)
      isError    == IF found THEN result.isError ELSE FALSE
      step       == [type |-> "tool", name |-> toolName,
                     args |-> summarizeToolArgs(toolName, args, cwd), ok |-> ~isError]
      output     == IF found /\ "content" \in DOMAIN result
                    THEN extractTextContent(result.content) ELSE <<>>
      withOutput == IF output # <<>> THEN step @@ [output |-> truncateOutput(output)]
                    ELSE step
  IN  IF toolName = "edit" /\ ArgTruthy(args, KeyPath) /\ ArgTruthy(args, KeyOldText)
           /\ ArgTruthy(args, KeyNewText)
      THEN withOutput @@ [diff |-> [path    |-> shortenPath(ArgOf(args, KeyPath), cwd),
                                    oldText |-> ArgOf(args, KeyOldText),
                                    newText |-> ArgOf(args, KeyNewText)]]
      ELSE withOutput

\* toolStep with a slip: the diff is attached only to an edit that succeeded.
toolStepDiffOnSuccess(block, toolResults, cwd) ==
  LET toolCallId == FieldOr(block, "id", "")
      toolName   == FieldOr(block, "name", "")
      args       == FieldOr(block, "arguments", <<>>)
      found      == MapHas(toolResults, toolCallId)
      result     == MapGet(toolResults, toolCallId)
      isError    == IF found THEN result.isError ELSE FALSE
      step       == [type |-> "tool", name |-> toolName,
                     args |-> summarizeToolArgs(toolName, args, cwd), ok |-> ~isError]
      output     == IF found /\ (isError \/ toolName = "bash") /\ "content" \in DOMAIN result
                    THEN extractTextContent(result.content) ELSE <<>>
      withOutput == IF output # <<>> THEN step @@ [output |-> truncateOutput(output)]
                    ELSE step
  IN  IF found /\ ~isError /\ toolName = "edit" /\ ArgTruthy(args, KeyPath) /\ ArgTruthy(args, KeyOldText)
           /\ ArgTruthy(args, KeyNewText)
      THEN withOutput @@ [diff |-> [path    |-> shortenPath(ArgOf(args, KeyPath), cwd),
                                    oldText |-> ArgOf(args, KeyOldText),
                                    newText |-> ArgOf(args, KeyNewText)]]
      ELSE withOutput

\* The toolCall branch of the block loop.
toolStep(block, toolResults, cwd) ==
  LET toolCallId == FieldOr(block, "id", "")
      toolName   == FieldOr(block, "name", "")
      args       == FieldOr(block, "arguments", <<>>)
      found      == MapHas(toolResults, toolCallId)
      result     == MapGet(toolResults, toolCallId)
      isError    == IF found THEN result.isError ELSE FALSE
      step       == [type |-> "tool", name |-> toolName,
                     args |-> summarizeToolArgs(toolName, args, cwd), ok |-> ~isError]
      output     == IF found /\ (isError \/ toolName = "bash") /\ "content" \in DOMAIN result
                    THEN extractTextContent(result.content) ELSE <<>>
      withOutput == IF output # <<>> THEN step @@ [output |-> truncateOutput(output)]
                    ELSE step
  IN  IF toolName = "edit" /\ ArgTruthy(args, KeyPath) /\ ArgTruthy(args, KeyOldText)
           /\ ArgTruthy(args, KeyNewText)
      THEN withOutput @@ [diff |-> [path    |-> shortenPath(ArgOf(args, KeyPath), cwd),
                                    oldText |-> ArgOf(args, KeyOldText),
                                    newText |-> ArgOf(args, KeyNewText)]]
      ELSE withOutput

\* One iteration of the block loop of a turn's assistant message.
sessionBlock(steps, block, toolResults, cwd) ==
  CASE block.type = "thinking" ->
         IF Trim(FieldOr(block, "thinking", <<>>)) # <<>>
         THEN Append(steps, [type |-> "thinking", text |-> Trim(FieldOr(block, "thinking", <<>>))])
         ELSE steps
    [] block.type = "text" ->
         IF Trim(FieldOr(block, "text", <<>>)) # <<>>
         THEN Append(steps, [type |-> "text", text |-> Trim(FieldOr(block, "text", <<>>))])
         ELSE steps
    [] block.type = "toolCall" -> Append(steps, toolStep(block, toolResults, cwd))
    [] OTHER -> steps

RECURSIVE sessionBlocks(_, _, _, _, _)
sessionBlocks(steps, content, i, toolResults, cwd) ==
  IF i > Len(content) THEN steps
  ELSE sessionBlocks(sessionBlock(steps, content[i], toolResults, cwd),
                     content, i + 1, toolResults, cwd)

\* sessionMessage with a slip: the first model of a turn is kept.
sessionMessageFirstModel(acc, msg, toolResults, cwd) ==
  IF msg.role # "assistant" THEN acc
  ELSE LET a1 == IF "model" \in DOMAIN msg /\ msg.model # "" /\ acc.model = ""
                 THEN [acc EXCEPT !.model = msg.model] ELSE acc
           a2 == IF "usage" \in DOMAIN msg
                 THEN [a1 EXCEPT !.inputTokens  = @ + FieldOr(msg.usage, "input", 0),
                                 !.outputTokens = @ + FieldOr(msg.usage, "output", 0),
                                 !.cost = @ + (IF "cost" \in DOMAIN msg.usage
                                               THEN FieldOr(msg.usage.cost, "total", 0)
                                               ELSE 0)]
                 ELSE a1
       IN  IF "content" \notin DOMAIN msg THEN a2
           ELSE [a2 EXCEPT !.steps = sessionBlocks(@, msg.content, 1, toolResults, cwd)]

\* One iteration of the loop over a raw turn's messages.
sessionMessage(acc, msg, toolResults, cwd) ==
  IF msg.role # "assistant" THEN acc
  ELSE LET a1 == IF "model" \in DOMAIN msg /\ msg.model # ""
                 THEN [acc EXCEPT !.model = msg.model] ELSE acc
           a2 == IF "usage" \in DOMAIN msg
                 THEN [a1 EXCEPT !.inputTokens  = @ + FieldOr(msg.usage, "input", 0),
                                 !.outputTokens = @ + FieldOr(msg.usage, "output", 0),
                                 !.cost = @ + (IF "cost" \in DOMAIN msg.usage
                                               THEN FieldOr(msg.usage.cost, "total", 0)
                                               ELSE 0)]
                 ELSE a1
       IN  IF "content" \notin DOMAIN msg THEN a2
           ELSE [a2 EXCEPT !.steps = sessionBlocks(@, msg.content, 1, toolResults, cwd)]

RECURSIVE sessionMessages(_, _, _, _, _)
sessionMessages(acc, messages, i, toolResults, cwd) ==
  IF i > Len(messages) THEN acc
  ELSE sessionMessages(sessionMessage(acc, messages[i], toolResults, cwd),
                       messages, i + 1, toolResults, cwd)

RECURSIVE MaxTimestamp(_, _, _)
MaxTimestamp(messages, i, maxTs) ==
  IF i > Len(messages) THEN maxTs
  ELSE MaxTimestamp(messages, i + 1,
                    IF messages[i].timestamp > maxTs THEN messages[i].timestamp ELSE maxTs)

sessionPrompt(userMsg) ==
  IF userMsg.content.kind = "string" THEN userMsg.content.text
  ELSE IF userMsg.content.kind = "blocks" THEN extractTextContent(userMsg.content.blocks)
  ELSE <<>>

\* The body of the loop over the raw turns, for a raw turn that starts with a
\* user message: the turn and its unrounded cost.
sessionTurn(rawTurn, scan, cwd) ==
  LET userMsg == rawTurn.messages[1]
      acc     == sessionMessages([steps |-> <<>>, inputTokens |-> 0, outputTokens |-> 0,
                                  cost |-> 0, model |-> ""],
                                 rawTurn.messages, 1, scan.toolResults, cwd)
      maxTs   == MaxTimestamp(rawTurn.messages, 1, userMsg.timestamp)
      turn    == [prompt |-> sessionPrompt(userMsg), steps |-> acc.steps, model |-> acc.model,
                  inputTokens |-> acc.inputTokens, outputTokens |-> acc.outputTokens,
                  cost |-> roundCost(acc.cost),
                  elapsed |-> RoundDiv(maxTs - userMsg.timestamp, MsPerSecond)]
      thinkingLevel == MapGet(scan.thinkingLevelAtUser, rawTurn.userIndex)
  IN  [turn |-> IF thinkingLevel # Undefined
                THEN turn @@ [thinkingLevel |-> thinkingLevel] ELSE turn,
       cost |-> acc.cost]

RECURSIVE sessionTurns(_, _, _, _, _)
sessionTurns(out, rawTurns, i, scan, cwd) ==
  IF i > Len(rawTurns) THEN out
  ELSE IF rawTurns[i].messages[1].role # "user"
       THEN sessionTurns(out, rawTurns, i + 1, scan, cwd)
       ELSE LET t == sessionTurn(rawTurns[i], scan, cwd)
            IN  sessionTurns([turns |-> Append(out.turns, t.turn),
                              totalCost |-> out.totalCost + t.cost],
                             rawTurns, i + 1, scan, cwd)

buildPublishedSession(h, es, t) ==
  LET scan == sessionScan(es)
      out  == sessionTurns([turns |-> <<>>, totalCost |-> 0],
                           splitTurns(scan.messages), 1, scan, h.cwd)
  IN  [session |-> [id |-> h.id, title |-> t, date |-> h.timestamp,
                    totalCost |-> roundCost(out.totalCost)],
       turns |-> out.turns]

----------------------------------------------------------------------------
(* Inputs: the session header and the branch entries a session can hold *)

Header == [id |-> "session-1", cwd |-> <<"/", "w">>, timestamp |-> "2026-02-17T18:00:00.000Z"]

LevelChange(level) == [type |-> "thinking_level_change", thinkingLevel |-> level]

ModelChange == [type |-> "model_change"]

MessageEntry(msg) == [type |-> "message", message |-> msg]

StringContent(text) == [kind |-> "string", text |-> text]

BlockContent(blocks) == [kind |-> "blocks", blocks |-> blocks]

UserMsg(content, ts) == [role |-> "user", content |-> content, timestamp |-> ts]

Usage(input, output, total) == [input |-> input, output |-> output, cost |-> [total |-> total]]

AssistantMsg(content, model, usage, ts) ==
  [role |-> "assistant", content |-> content, model |-> model, usage |-> usage,
   timestamp |-> ts]

ToolResultMsg(id, isError, content, ts) ==
  [role |-> "toolResult", toolCallId |-> id, isError |-> isError, content |-> content,
   timestamp |-> ts]

Thinking(text) == [type |-> "thinking", thinking |-> text]

Text(text) == [type |-> "text", text |-> text]

ToolCall(id, name, args) == [type |-> "toolCall", id |-> id, name |-> name, arguments |-> args]

BashCall == ToolCall("c1", "bash", <<<<KeyCommand, <<"l", "s">>>>>>)

ReadCall == ToolCall("c2", "read", <<<<KeyPath, <<"/", "w", "/", "f">>>>>>)

\* Entries of a log that exercises segmentation and reasoning levels.
TurnEntries ==
  { LevelChange("high"), LevelChange("off"), ModelChange,
    MessageEntry(UserMsg(StringContent(<<"p">>), 1000)),
    MessageEntry(UserMsg(BlockContent(<<Text(<<"q">>), Text(<<"r">>)>>), 3000)),
    MessageEntry(AssistantMsg(<<Text(<<"a">>), BashCall>>, "m1", Usage(100, 50, 15), 5000)),
    MessageEntry(ToolResultMsg("c1", FALSE, <<Text(<<"o">>)>>, 10000)) }

MaxLog == 5

SeqsUpTo(S, n) == UNION {[1..k -> S] : k \in 0..n}

\* Assistant messages of a log that exercises the step builder: blank and
\* padded thinking and text, text before and after a tool call, several calls.
StepContents ==
  { <<>>,
    <<Thinking(<<" ", "t", "\n">>)>>,
    <<Thinking(<<" ", "\t">>), Text(<<"a", " ">>)>>,
    <<Text(<<"a", " ">>), Text(<<"\n">>), Text(<<" ", "b">>)>>,
    <<Text(<<" ", "b">>)>>,
    <<Text(<<>>)>>,
    <<Text(<<"a", " ">>), BashCall>>,
    <<ReadCall, Text(<<" ", "b">>)>>,
    <<BashCall, Thinking(<<" ", "t", "\n">>), ReadCall>>,
    <<Text(<<" ">>), ReadCall>> }

StepResults ==
  { ToolResultMsg("c1", FALSE, <<Text(<<"o">>)>>, 6000),
    ToolResultMsg("c1", TRUE, <<Text(<<"e">>), Text(<<>>), Text(<<"f">>)>>, 7000),
    ToolResultMsg("c2", FALSE, <<Text(<<"o">>)>>, 8000),
    ToolResultMsg("c2", TRUE, <<>>, 9000) }

StepEntries ==
  { MessageEntry(UserMsg(StringContent(<<"p">>), 1000)) }
    \cup { MessageEntry(AssistantMsg(c, "m1", Usage(100, 50, 15), 5000)) : c \in StepContents }
    \cup { MessageEntry(r) : r \in StepResults }

MaxStepLog == 3

NotCalled == [status |-> "none"]

Returned(v) == IF Threw(v) THEN [status |-> "threw", error |-> v.error]
               ELSE [status |-> "returned", value |-> v]

\* No file at a path, and a file with its content
Absent == [exists |-> FALSE]

File(content) == [exists |-> TRUE, content |-> content]

\* No helper was called.
HelperIdle == helperArgs = NotCalled /\ helperResult = NotCalled

\* generateTitle is not running.
TitleIdle == titleCall = [pc |-> "idle"]

\* No /publish handler is running, and it left nothing behind.
HandlerIdle == publishers = <<>> /\ tmpFile = Absent /\ outFiles = {} /\ gists = <<>>

RestIdle == HelperIdle /\ legacy = NotCalled /\ TitleIdle /\ HandlerIdle

Init ==
  /\ header = Header
  /\ title = "Test"
  /\ entries \in SeqsUpTo(TurnEntries, MaxLog)
  /\ trace = NotCalled
  /\ published = NotCalled
  /\ locals = FreshScan
  /\ invocations = <<>>
  /\ RestIdle

\* A caller compiles the session's entries with buildTrace.
BuildTrace ==
  /\ trace = NotCalled
  /\ trace' = Returned(buildTrace(header, entries, title))
  /\ UNCHANGED <<header, entries, title, published, locals, invocations, restVars>>

\* The /publish handler compiles the session's entries with buildPublishedSession.
BuildPublishedSession ==
  /\ published = NotCalled
  /\ published' = Returned(buildPublishedSession(header, entries, title))
  /\ UNCHANGED <<header, entries, title, trace, locals, invocations, restVars>>

Next == BuildTrace \/ BuildPublishedSession

Spec == Init /\ [][Next]_vars

\* The same calls, on logs of one prompt followed by step-builder entries.
InitSteps ==
  /\ header = Header
  /\ title = "Test"
  /\ entries \in { <<MessageEntry(UserMsg(StringContent(<<"p">>), 1000))>> \o tail :
                      tail \in SeqsUpTo(StepEntries, MaxStepLog) }
  /\ trace = NotCalled
  /\ published = NotCalled
  /\ locals = FreshScan
  /\ invocations = <<>>
  /\ RestIdle

SpecSteps == InitSteps /\ [][Next]_vars

----------------------------------------------------------------------------
(* What the log says, read off the entries by position *)

IsMessageAt(i) == entries[i].type = "message"

IsUserAt(i) == IsMessageAt(i) /\ entries[i].message.role = "user"

UserPositions == {i \in 1..Len(entries) : IsUserAt(i)}

\* The turn a position belongs to: the number of user messages up to it.
TurnOf(i) == Cardinality({u \in UserPositions : u <= i})

NumTurns == Cardinality(UserPositions)

UserPos(k) == CHOOSE u \in UserPositions : TurnOf(u) = k

\* Positions of the non-user messages of turn k, and their payloads in log order.
SpanPositions(k) == {i \in 1..Len(entries) : IsMessageAt(i) /\ ~IsUserAt(i) /\ TurnOf(i) = k}

RECURSIVE PayloadsAt(_, _)
PayloadsAt(i, P) ==
  IF i > Len(entries) THEN <<>>
  ELSE (IF i \in P THEN <<entries[i].message>> ELSE <<>>) \o PayloadsAt(i + 1, P)

Span(k) == PayloadsAt(1, SpanPositions(k))

TraceDone == trace.status = "returned"

PublishedDone == published.status = "returned"

\* C1: the compiled document of either builder holds exactly one turn per user
\* message entry, in log order, turn k's prompt being the text of the k-th user
\* message; a user message with no reply before the next user message or the end
\* of the log still yields a turn, whose step list is empty.
C1_OneTurnPerUser ==
  /\ TraceDone =>
        /\ Len(trace.value.turns) = NumTurns
        /\ \A k \in 1..NumTurns :
              /\ trace.value.turns[k].prompt = promptFrom(entries[UserPos(k)].message)
              /\ SpanPositions(k) = {} => trace.value.turns[k].completion.steps = <<>>
  /\ PublishedDone =>
        /\ Len(published.value.turns) = NumTurns
        /\ \A k \in 1..NumTurns :
              /\ published.value.turns[k].prompt = sessionPrompt(entries[UserPos(k)].message)
              /\ SpanPositions(k) = {} => published.value.turns[k].steps = <<>>

\* Both builders ran on a log with a replied turn, then a user message without
\* any reply, then another user message.
C1_Witness ==
  /\ TraceDone /\ PublishedDone
  /\ NumTurns >= 3
  /\ SpanPositions(1) # {} /\ SpanPositions(2) = {}
  /\ trace.value.turns[2].completion.steps = <<>>
  /\ published.value.turns[2].steps = <<>>
  /\ trace.value.turns[1].prompt # trace.value.turns[2].prompt

\* The result a call identifier correlates with: the last toolResult entry of
\* the whole log that carries it.
ResultPositions(id) ==
  {i \in 1..Len(entries) : IsMessageAt(i) /\ entries[i].message.role = "toolResult"
                              /\ entries[i].message.toolCallId = id}

ResultIds == {entries[i].message.toolCallId :
                i \in {j \in 1..Len(entries) : IsMessageAt(j)
                                                 /\ entries[j].message.role = "toolResult"}}

LastResult(id) ==
  entries[CHOOSE i \in ResultPositions(id) : \A j \in ResultPositions(id) : j <= i].message

ResultMap == [id \in ResultIds |-> LastResult(id)]

UserLed(rawTurn) == rawTurn.messages[1].role = "user"

\* C2: turns partition the message list.  The raw turns either builder forms
\* hold, for turn k, exactly the non-user messages between the k-th user
\* message and the next one, in log order, and the emitted steps, response,
\* tokens, cost and elapsed time of turn k are those of that span alone, so a
\* message before the first user message contributes to none of them.
C2_TurnsPartitionMessages ==
  /\ TraceDone =>
        /\ Len(traceScan(entries).rawTurns) = NumTurns
        /\ \A k \in 1..NumTurns :
              LET prompt == entries[UserPos(k)].message
                  md     == buildMetadata(prompt, Span(k), Undefined)
                  turn   == trace.value.turns[k]
              IN  /\ traceScan(entries).rawTurns[k].messages = Span(k)
                  /\ turn.completion = buildCompletion(Span(k), ResultMap)
                  /\ turn.metadata.inputTokens = md.inputTokens
                  /\ turn.metadata.outputTokens = md.outputTokens
                  /\ turn.metadata.cost = md.cost
                  /\ turn.metadata.elapsed = md.elapsed
  /\ PublishedDone =>
        LET raws == SelectSeq(splitTurns(sessionScan(entries).messages), UserLed)
        IN  /\ Len(raws) = NumTurns
            /\ \A k \in 1..NumTurns :
                  LET own  == <<entries[UserPos(k)].message>> \o Span(k)
                      exp  == sessionTurn([messages |-> own, userIndex |-> 0],
                                          [toolResults |-> ResultMap,
                                           thinkingLevelAtUser |-> EmptyMap], header.cwd).turn
                      turn == published.value.turns[k]
                  IN  /\ raws[k].messages = own
                      /\ turn.steps = exp.steps
                      /\ turn.inputTokens = exp.inputTokens
                      /\ turn.outputTokens = exp.outputTokens
                      /\ turn.cost = exp.cost
                      /\ turn.elapsed = exp.elapsed

\* Both builders ran on a log that starts with an assistant message, before any
\* user message, and then holds two replied turns.
C2_Witness ==
  /\ TraceDone /\ PublishedDone
  /\ Len(entries) >= 1 /\ IsMessageAt(1) /\ entries[1].message.role = "assistant"
  /\ NumTurns = 2
  /\ SpanPositions(1) # {} /\ SpanPositions(2) # {}
  /\ trace.value.turns[1].metadata.inputTokens = 100
  /\ published.value.turns[2].inputTokens = 100

LevelPositionsBefore(p) ==
  {i \in 1..(p - 1) : entries[i].type = "thinking_level_change"}

LastLevelBefore(p) ==
  entries[CHOOSE i \in LevelPositionsBefore(p) :
            \A j \in LevelPositionsBefore(p) : j <= i].thinkingLevel

HasLevel(r) == "thinkingLevel" \in DOMAIN r

\* C5: the reasoning level of a turn is the value of the last
\* thinking-level-change entry that precedes the turn's user message: several
\* changes collapse to the final one, a level carries forward until the next
\* change, and a change after the user message reaches only later turns.
C5_LevelIsLastChangeBeforeUser ==
  \A k \in 1..NumTurns :
    LevelPositionsBefore(UserPos(k)) # {} =>
      /\ TraceDone =>
            /\ HasLevel(trace.value.turns[k].metadata)
            /\ trace.value.turns[k].metadata.thinkingLevel = LastLevelBefore(UserPos(k))
      /\ PublishedDone =>
            /\ HasLevel(published.value.turns[k])
            /\ published.value.turns[k].thinkingLevel = LastLevelBefore(UserPos(k))

\* Both builders ran on a log with two different changes before the first user
\* message, a change back after it, and a second user message: the first turn
\* has the second change's level, the second turn the third's.
C5_Witness ==
  /\ TraceDone /\ PublishedDone
  /\ Len(entries) = 5
  /\ entries[1] = LevelChange("high") /\ entries[2] = LevelChange("off")
  /\ IsUserAt(3) /\ entries[4] = LevelChange("high") /\ IsUserAt(5)
  /\ trace.value.turns[1].metadata.thinkingLevel = "off"
  /\ trace.value.turns[2].metadata.thinkingLevel = "high"
  /\ published.value.turns[1].thinkingLevel = "off"
  /\ published.value.turns[2].thinkingLevel = "high"

\* C6: a turn carries the reasoning-level field if and only if some
\* thinking-level-change entry precedes its user message; in a log without such
\* entries every turn lacks the field.
C6_LevelFieldIffChangeBefore ==
  \A k \in 1..NumTurns :
    /\ TraceDone =>
          (HasLevel(trace.value.turns[k].metadata) <=> LevelPositionsBefore(UserPos(k)) # {})
    /\ PublishedDone =>
          (HasLevel(published.value.turns[k]) <=> LevelPositionsBefore(UserPos(k)) # {})

\* Both builders ran on a log whose first turn precedes every level change and
\* whose second turn follows one: the first lacks the field, the second has it.
C6_Witness ==
  /\ TraceDone /\ PublishedDone
  /\ NumTurns = 2
  /\ LevelPositionsBefore(UserPos(1)) = {} /\ LevelPositionsBefore(UserPos(2)) # {}
  /\ ~HasLevel(trace.value.turns[1].metadata) /\ HasLevel(trace.value.turns[2].metadata)
  /\ ~HasLevel(published.value.turns[1]) /\ HasLevel(published.value.turns[2])

----------------------------------------------------------------------------
(* What a turn's blocks say, read off the assistant messages of its span *)

IsBlank(text) == \A i \in 1..Len(text) : IsSpace(text[i])

CarriesCall(msg) == Cardinality({i \in 1..Len(msg.content) : msg.content[i].type = "toolCall"}) > 0

\* The content blocks of the assistant messages of `msgs`, in message order and
\* block order, each with whether its message also holds a tool call.
RECURSIVE FlatBlocks(_)
FlatBlocks(msgs) ==
  IF msgs = <<>> THEN <<>>
  ELSE (IF Head(msgs).role = "assistant"
        THEN [i \in 1..Len(Head(msgs).content) |->
                [block |-> Head(msgs).content[i], withCall |-> CarriesCall(Head(msgs))]]
        ELSE <<>>) \o FlatBlocks(Tail(msgs))

IsCall(fb) == fb.block.type = "toolCall"

IsNarrated(fb) ==
  \/ fb.block.type = "thinking" /\ ~IsBlank(fb.block.thinking)
  \/ fb.block.type = "text" /\ ~IsBlank(fb.block.text) /\ fb.withCall

IsAnswer(fb) == fb.block.type = "text" /\ ~IsBlank(fb.block.text) /\ ~fb.withCall

MakesStep(fb) == IsCall(fb) \/ IsNarrated(fb)

IsAction(step) == step.type = "action"

IsNarration(step) == step.type = "narration"

IsToolStep(step) == step.type = "tool"

IsToolResultEntry(e) == e.type = "message" /\ e.message.role = "toolResult"

IsNoToolResultEntry(e) == ~IsToolResultEntry(e)

\* A step without what its result decides
Shape(step) ==
  IF step.type = "action" THEN <<"action", step.name, step.args>> ELSE <<step.type, step.text>>

Shapes(steps) == [j \in 1..Len(steps) |-> Shape(steps[j])]

\* C3: in buildTrace the steps of a turn follow the order of the content blocks
\* across the turn's assistant messages, and every toolCall block gives exactly
\* one action step, at the call's place in that order; where the toolResult
\* entries stand in the log, or whether they are there at all, changes neither
\* the order nor the number of steps.
C3_ActionsStandWhereCallsStand ==
  TraceDone =>
    \A k \in 1..NumTurns :
      LET steps    == trace.value.turns[k].completion.steps
          expected == SelectSeq(FlatBlocks(Span(k)), MakesStep)
          bare     == buildTrace(header, SelectSeq(entries, IsNoToolResultEntry), title)
      IN  /\ Len(steps) = Len(expected)
          /\ \A j \in 1..Len(steps) :
                /\ IsAction(steps[j]) <=> IsCall(expected[j])
                /\ IsAction(steps[j]) =>
                      /\ steps[j].name = expected[j].block.name
                      /\ steps[j].args = expected[j].block.arguments
          /\ Shapes(steps) = Shapes(bare.turns[k].completion.steps)

AssistantWith(content) == MessageEntry(AssistantMsg(content, "m1", Usage(100, 50, 15), 5000))

\* buildTrace ran on a log where the result of the read call stands before the
\* assistant message that makes the calls and the result of the bash call after
\* it: the steps are the bash action, the narration, the read action.
C3_Witness ==
  /\ TraceDone
  /\ Len(entries) = 4
  /\ IsToolResultEntry(entries[2]) /\ entries[2].message.toolCallId = "c2"
  /\ entries[3] = AssistantWith(<<BashCall, Thinking(<<" ", "t", "\n">>), ReadCall>>)
  /\ IsToolResultEntry(entries[4]) /\ entries[4].message.toolCallId = "c1"
  /\ LET steps == trace.value.turns[1].completion.steps
     IN  /\ Len(steps) = 3
         /\ IsAction(steps[1]) /\ steps[1].name = "bash"
         /\ IsNarration(steps[2])
         /\ IsAction(steps[3]) /\ steps[3].name = "read"

HasResult(id) == ResultPositions(id) # {}

\* C4: an action's success flag is false exactly when the result correlated
\* with the call's identifier (the log's last toolResult carrying it) exists and
\* carries the error flag; a call whose identifier no toolResult of the log
\* carries gives ok = TRUE and no output field, and compilation does not fail.
C4_OkFalseOnlyOnErrorResult ==
  /\ trace.status # "threw" /\ published.status # "threw"
  /\ TraceDone =>
        \A k \in 1..NumTurns :
          LET actions == SelectSeq(trace.value.turns[k].completion.steps, IsAction)
              calls   == SelectSeq(FlatBlocks(Span(k)), IsCall)
          IN  /\ Len(actions) = Len(calls)
              /\ \A j \in 1..Len(actions) :
                    LET id == calls[j].block.id
                    IN  /\ ~actions[j].ok <=> (HasResult(id) /\ LastResult(id).isError)
                        /\ ~HasResult(id) => "output" \notin DOMAIN actions[j]
  /\ PublishedDone =>
        \A k \in 1..NumTurns :
          LET tools == SelectSeq(published.value.turns[k].steps, IsToolStep)
              calls == SelectSeq(FlatBlocks(Span(k)), IsCall)
          IN  /\ Len(tools) = Len(calls)
              /\ \A j \in 1..Len(tools) :
                    LET id == calls[j].block.id
                    IN  /\ ~tools[j].ok <=> (HasResult(id) /\ LastResult(id).isError)
                        /\ ~HasResult(id) => "output" \notin DOMAIN tools[j]

\* Both builders ran on a log whose bash call has no result anywhere and whose
\* read call has an errored one: the first action is ok without output, the
\* second is not ok.
C4_Witness ==
  /\ TraceDone /\ PublishedDone
  /\ ~HasResult("c1") /\ HasResult("c2") /\ LastResult("c2").isError
  /\ Len(entries) >= 2
  /\ entries[2] = AssistantWith(<<BashCall, Thinking(<<" ", "t", "\n">>), ReadCall>>)
  /\ LET steps == trace.value.turns[1].completion.steps
     IN  /\ steps[1].ok /\ "output" \notin DOMAIN steps[1]
         /\ ~steps[3].ok
  /\ LET steps == published.value.turns[1].steps
     IN  /\ steps[1].ok /\ "output" \notin DOMAIN steps[1]
         /\ ~steps[3].ok

BlockText(fb) == IF fb.block.type = "thinking" THEN fb.block.thinking ELSE fb.block.text

\* C7: in buildTrace a text block that is not blank becomes a narration step
\* exactly when its assistant message also holds a toolCall block, before or
\* after the text; it is then no part of the response.  So the narration steps
\* of a turn are, in order, its non-blank thinking blocks and its non-blank text
\* blocks of call-bearing messages, and a turn without a non-blank text block in
\* a call-free message has an empty response.
C7_TextBesideCallIsNarration ==
  TraceDone =>
    \A k \in 1..NumTurns :
      LET narrations == SelectSeq(trace.value.turns[k].completion.steps, IsNarration)
          narrated   == SelectSeq(FlatBlocks(Span(k)), IsNarrated)
          answers    == SelectSeq(FlatBlocks(Span(k)), IsAnswer)
      IN  /\ Len(narrations) = Len(narrated)
          /\ \A j \in 1..Len(narrations) : narrations[j].text = Trim(BlockText(narrated[j]))
          /\ answers = <<>> => trace.value.turns[k].completion.response = <<>>

\* buildTrace ran on a turn of two messages, one with text before its call and
\* one with text after its call: both texts are narration, the response is empty.
C7_Witness ==
  /\ TraceDone
  /\ Len(entries) = 3
  /\ entries[2] = AssistantWith(<<Text(<<"a", " ">>), BashCall>>)
  /\ entries[3] = AssistantWith(<<ReadCall, Text(<<" ", "b">>)>>)
  /\ LET c == trace.value.turns[1].completion
     IN  /\ Len(c.steps) = 4
         /\ c.steps[1] = [type |-> "narration", text |-> <<"a">>]
         /\ c.steps[4] = [type |-> "narration", text |-> <<"b">>]
         /\ c.response = <<>>

\* The parts, each after the first preceded by a blank line
RECURSIVE BlankLineJoined(_)
BlankLineJoined(parts) ==
  IF parts = <<>> THEN <<>>
  ELSE IF Len(parts) = 1 THEN parts[1]
  ELSE BlankLineJoined(SubSeq(parts, 1, Len(parts) - 1)) \o <<"\n", "\n">> \o parts[Len(parts)]

\* C8: in buildTrace a turn's response is the blank-line-joined concatenation,
\* in message order and block order, of exactly the trimmed non-blank text
\* blocks of the turn's call-free assistant messages, the empty string when
\* there is none; such a block is no step, the steps being as many as the
\* narrated blocks and the calls.
C8_ResponseJoinsCallFreeText ==
  TraceDone =>
    \A k \in 1..NumTurns :
      LET answers == SelectSeq(FlatBlocks(Span(k)), IsAnswer)
          c       == trace.value.turns[k].completion
      IN  /\ c.response = BlankLineJoined([j \in 1..Len(answers) |-> Trim(answers[j].block.text)])
          /\ Len(c.steps) = Len(SelectSeq(FlatBlocks(Span(k)), MakesStep))

\* buildTrace ran on a turn with a call-bearing message that talks, then a
\* call-free message of three text blocks, the middle one blank, then a second
\* call-free message: the response joins a, b and b.
C8_Witness ==
  /\ TraceDone
  /\ Len(entries) = 4
  /\ entries[2] = AssistantWith(<<Text(<<"a", " ">>), BashCall>>)
  /\ entries[3] = AssistantWith(<<Text(<<"a", " ">>), Text(<<"\n">>), Text(<<" ", "b">>)>>)
  /\ entries[4] = AssistantWith(<<Text(<<" ", "b">>)>>)
  /\ trace.value.turns[1].completion.response = <<"a", "\n", "\n", "b", "\n", "\n", "b">>
  /\ Len(trace.value.turns[1].completion.steps) = 2

IsBlankBlock(b) ==
  \/ b.type = "thinking" /\ IsBlank(b.thinking)
  \/ b.type = "text" /\ IsBlank(b.text)

IsFilledBlock(b) == ~IsBlankBlock(b)

\* The log with every empty or whitespace-only thinking and text block removed
WithoutBlankBlocks ==
  [i \in 1..Len(entries) |->
     IF IsMessageAt(i) /\ entries[i].message.role = "assistant"
     THEN [entries[i] EXCEPT !.message.content = SelectSeq(@, IsFilledBlock)]
     ELSE entries[i]]

IsTextStep(step) == step.type \in {"narration", "thinking", "text"}

Trimmed(text) == text # <<>> /\ ~IsSpace(text[1]) /\ ~IsSpace(text[Len(text)])

\* C9: an empty or whitespace-only thinking or text block gives no step, adds
\* nothing to the response and raises no error: either builder returns the
\* document it returns for the log without those blocks, and the text of every
\* narration, thinking or text step is non-empty and starts and ends with a
\* character that is not whitespace.
C9_BlankBlocksLeaveNoTrace ==
  /\ trace.status # "threw" /\ published.status # "threw"
  /\ TraceDone =>
        /\ trace.value = buildTrace(header, WithoutBlankBlocks, title)
        /\ \A k \in 1..NumTurns :
              LET steps == trace.value.turns[k].completion.steps
              IN  \A j \in 1..Len(steps) : IsTextStep(steps[j]) => Trimmed(steps[j].text)
  /\ PublishedDone =>
        /\ published.value = buildPublishedSession(header, WithoutBlankBlocks, title)
        /\ \A k \in 1..NumTurns :
              LET steps == published.value.turns[k].steps
              IN  \A j \in 1..Len(steps) : IsTextStep(steps[j]) => Trimmed(steps[j].text)

\* Both builders ran on a turn whose messages hold a whitespace-only thinking
\* block, an empty text block and a whitespace-only text block beside a call:
\* the only steps are the read action (and, published, the text a).
C9_Witness ==
  /\ TraceDone /\ PublishedDone
  /\ Len(entries) = 4
  /\ entries[2] = AssistantWith(<<Thinking(<<" ", "\t">>), Text(<<"a", " ">>)>>)
  /\ entries[3] = AssistantWith(<<Text(<<>>)>>)
  /\ entries[4] = AssistantWith(<<Text(<<" ">>), ReadCall>>)
  /\ Len(trace.value.turns[1].completion.steps) = 1
  /\ trace.value.turns[1].completion.response = <<"a">>
  /\ Len(published.value.turns[1].steps) = 2

HasText(msg) ==
  \E i \in 1..Len(msg.content) : msg.content[i].type = "text" /\ msg.content[i].text # <<>>

HasOutput(step) == "output" \in DOMAIN step

\* C10: in buildPublishedSession a tool step carries an output field only when
\* its call's correlated result exists, holds non-empty text, and either carries
\* the error flag or belongs to the bash tool; a successful call of any other
\* tool carries no output, whatever text its result holds.
C10_OutputOnlyForErrorOrBash ==
  PublishedDone =>
    \A k \in 1..NumTurns :
      LET tools == SelectSeq(published.value.turns[k].steps, IsToolStep)
          calls == SelectSeq(FlatBlocks(Span(k)), IsCall)
      IN  /\ Len(tools) = Len(calls)
          /\ \A j \in 1..Len(tools) :
                LET id == calls[j].block.id
                IN  /\ HasOutput(tools[j]) =>
                          /\ HasResult(id) /\ HasText(LastResult(id))
                          /\ LastResult(id).isError \/ calls[j].block.name = "bash"
                    /\ (tools[j].ok /\ calls[j].block.name # "bash") => ~HasOutput(tools[j])

\* buildPublishedSession ran on a turn with a bash call and a read call, both
\* with a successful result that holds text: the bash step carries its output,
\* the read step none.
C10_Witness ==
  /\ PublishedDone
  /\ Len(entries) = 4
  /\ entries[2] = AssistantWith(<<BashCall, Thinking(<<" ", "t", "\n">>), ReadCall>>)
  /\ HasResult("c1") /\ ~LastResult("c1").isError /\ HasText(LastResult("c1"))
  /\ HasResult("c2") /\ ~LastResult("c2").isError /\ HasText(LastResult("c2"))
  /\ LET steps == published.value.turns[1].steps
     IN  /\ steps[1].name = "bash" /\ HasOutput(steps[1]) /\ steps[1].output = <<"o">>
         /\ steps[3].name = "read" /\ steps[3].ok /\ ~HasOutput(steps[3])

----------------------------------------------------------------------------
(* What a result says, read off its content blocks *)

IsFilledText(b) == b.type = "text" /\ b.text # <<>>

\* The parts, each after the first preceded by a line break
RECURSIVE NewlineJoined(_)
NewlineJoined(parts) ==
  IF parts = <<>> THEN <<>>
  ELSE IF Len(parts) = 1 THEN parts[1]
  ELSE NewlineJoined(SubSeq(parts, 1, Len(parts) - 1)) \o <<"\n">> \o parts[Len(parts)]

\* The text of a result: its non-empty text blocks, one per line
ResultText(msg) ==
  LET filled == SelectSeq(msg.content, IsFilledText)
  IN  NewlineJoined([j \in 1..Len(filled) |-> filled[j].text])

\* C11 as the specification states it: in buildTrace an action whose call
\* succeeded and whose tool is not bash has no output field, whatever text its
\* result holds, and a failed action carries its result's text as output.
C11_SuccessfulNonBashHasNoOutput ==
  TraceDone =>
    \A k \in 1..NumTurns :
      LET actions == SelectSeq(trace.value.turns[k].completion.steps, IsAction)
          calls   == SelectSeq(FlatBlocks(Span(k)), IsCall)
      IN  \A j \in 1..Len(actions) :
            LET id == calls[j].block.id
            IN  /\ (actions[j].ok /\ actions[j].name # "bash") => ~HasOutput(actions[j])
                /\ (~actions[j].ok /\ HasText(LastResult(id))) =>
                      /\ HasOutput(actions[j])
                      /\ actions[j].output = ResultText(LastResult(id))

\* C11, amended: in buildTrace an action whose call succeeded and whose tool is
\* not bash carries its result's text as output whenever that text is not
\* empty, just as a failed action does; the tool's name and the outcome do not
\* decide whether the output is kept.
C11_SuccessfulNonBashCarriesOutput ==
  TraceDone =>
    \A k \in 1..NumTurns :
      LET actions == SelectSeq(trace.value.turns[k].completion.steps, IsAction)
          calls   == SelectSeq(FlatBlocks(Span(k)), IsCall)
      IN  \A j \in 1..Len(actions) :
            LET id == calls[j].block.id
            IN  /\ (actions[j].ok /\ actions[j].name # "bash" /\ HasResult(id)
                      /\ HasText(LastResult(id))) =>
                      /\ HasOutput(actions[j])
                      /\ actions[j].output = ResultText(LastResult(id))
                /\ (~actions[j].ok /\ HasText(LastResult(id))) =>
                      /\ HasOutput(actions[j])
                      /\ actions[j].output = ResultText(LastResult(id))

\* buildTrace ran on a turn with a bash call whose result failed with two lines
\* of text and a read call whose result succeeded with text: the failed bash
\* action carries both lines, and the successful read action carries its text.
C11_Witness ==
  /\ TraceDone
  /\ Len(entries) = 4
  /\ entries[2] = AssistantWith(<<BashCall, Thinking(<<" ", "t", "\n">>), ReadCall>>)
  /\ HasResult("c1") /\ LastResult("c1").isError
  /\ HasResult("c2") /\ ~LastResult("c2").isError /\ HasText(LastResult("c2"))
  /\ LET steps == trace.value.turns[1].completion.steps
     IN  /\ steps[1].name = "bash" /\ ~steps[1].ok
         /\ steps[1].output = <<"e", "\n", "f">>
         /\ steps[3].name = "read" /\ steps[3].ok
         /\ HasOutput(steps[3]) /\ steps[3].output = <<"o">>

----------------------------------------------------------------------------
(* Logs that exercise the output of tool results: three tools, results of one *)
(* and of several blocks, one longer than the published output limit          *)

OtherCall == ToolCall("c3", "grep", <<<<<<"q">>, <<"x">>>>>>)

LongText == [i \in 1..(MAX_TOOL_OUTPUT_BYTES + 1) |-> "x"]

Image == [type |-> "image"]

OutputResults ==
  { ToolResultMsg("c1", FALSE, <<Text(<<"o">>)>>, 6000),
    ToolResultMsg("c1", TRUE, <<Text(<<"e">>), Text(<<>>), Text(<<"f">>)>>, 7000),
    ToolResultMsg("c2", FALSE, <<Text(LongText)>>, 8000),
    ToolResultMsg("c2", TRUE, <<>>, 9000),
    ToolResultMsg("c3", FALSE, <<Image, Text(<<"o">>), Text(<<"p">>)>>, 9000),
    ToolResultMsg("c3", FALSE, <<Text(<<>>), Image>>, 9000) }

OutputEntries ==
  { MessageEntry(AssistantMsg(<<BashCall, ReadCall, OtherCall>>, "m1", Usage(100, 50, 15), 5000)) }
    \cup { MessageEntry(r) : r \in OutputResults }

MaxOutputLog == 4

InitOutput ==
  /\ header = Header
  /\ title = "Test"
  /\ entries \in { <<MessageEntry(UserMsg(StringContent(<<"p">>), 1000))>> \o tail :
                      tail \in SeqsUpTo(OutputEntries, MaxOutputLog) }
  /\ trace = NotCalled
  /\ published = NotCalled
  /\ locals = FreshScan
  /\ invocations = <<>>
  /\ RestIdle

SpecOutput == InitOutput /\ [][Next]_vars

\* C12: in buildTrace an action step carries an output field exactly when the
\* log holds a result for its call and the text of that result, its non-empty
\* text blocks one per line, is not empty; this holds for bash, read and any
\* other tool and for successful and errored results alike, and the output is
\* then that whole text, however long.
C12_OutputIffResultHasText ==
  TraceDone =>
    \A k \in 1..NumTurns :
      LET actions == SelectSeq(trace.value.turns[k].completion.steps, IsAction)
          calls   == SelectSeq(FlatBlocks(Span(k)), IsCall)
      IN  /\ Len(actions) = Len(calls)
          /\ \A j \in 1..Len(actions) :
                LET id == calls[j].block.id
                IN  /\ HasOutput(actions[j]) <=>
                          (HasResult(id) /\ ResultText(LastResult(id)) # <<>>)
                    /\ HasOutput(actions[j]) =>
                          actions[j].output = ResultText(LastResult(id))

\* buildTrace ran on a turn that calls bash, read and grep, where bash failed
\* with two lines, read succeeded with a text longer than the published output
\* limit and grep succeeded with an image and two text blocks: each action
\* carries its whole text.
C12_Witness ==
  /\ TraceDone
  /\ Len(entries) = 5
  /\ HasResult("c1") /\ LastResult("c1").isError
  /\ HasResult("c2") /\ ~LastResult("c2").isError
  /\ HasResult("c3") /\ HasText(LastResult("c3"))
  /\ LET steps == trace.value.turns[1].completion.steps
     IN  /\ Len(steps) = 3
         /\ steps[1].name = "bash" /\ steps[1].output = <<"e", "\n", "f">>
         /\ steps[2].name = "read" /\ steps[2].ok
         /\ Len(steps[2].output) > MAX_TOOL_OUTPUT_BYTES
         /\ steps[3].name = "grep" /\ steps[3].output = <<"o", "\n", "p">>

----------------------------------------------------------------------------
(* Logs that exercise the metadata: assistant messages that differ in usage,  *)
(* model and timestamp, one of them stamped earlier than the user message     *)

AssistantNoModel(content, usage, ts) ==
  [role |-> "assistant", content |-> content, usage |-> usage, timestamp |-> ts]

MetricUser == UserMsg(StringContent(<<"p">>), 3000)

\* Costs count tenths of a millionth of a dollar: 4 is $0.0000004.
MetricEntries ==
  { MessageEntry(MetricUser),
    MessageEntry(AssistantMsg(<<Text(<<"a">>)>>, "m1", Usage(100, 50, 4), 4499)),
    MessageEntry(AssistantMsg(<<Text(<<"a">>)>>, "m2", Usage(200, 80, 15), 500)),
    MessageEntry(AssistantMsg(<<Text(<<"a">>)>>, "", Usage(1, 2, 5), 4500)),
    MessageEntry(AssistantNoModel(<<Text(<<"a">>)>>, Usage(10, 20, 10), 4000)),
    MessageEntry(ToolResultMsg("c1", FALSE, <<>>, 7500)) }

MaxMetricLog == 5

InitMetrics ==
  /\ header = Header
  /\ title = "Test"
  /\ entries \in SeqsUpTo(MetricEntries, MaxMetricLog)
  /\ trace = NotCalled
  /\ published = NotCalled
  /\ locals = FreshScan
  /\ invocations = <<>>
  /\ RestIdle

SpecMetrics == InitMetrics /\ [][Next]_vars

IsAssistant(msg) == msg.role = "assistant"

\* The assistant messages of turn k, in log order
Assistants(k) == SelectSeq(Span(k), IsAssistant)

RECURSIVE Sum(_)
Sum(numbers) ==
  IF numbers = <<>> THEN 0 ELSE numbers[Len(numbers)] + Sum(SubSeq(numbers, 1, Len(numbers) - 1))

InputSum(k) == Sum([j \in 1..Len(Assistants(k)) |-> Assistants(k)[j].usage.input])

OutputSum(k) == Sum([j \in 1..Len(Assistants(k)) |-> Assistants(k)[j].usage.output])

CostSum(k) == Sum([j \in 1..Len(Assistants(k)) |-> Assistants(k)[j].usage.cost.total])

\* c is amount rounded to a millionth of a dollar, a half rounding up.
IsRoundedCost(c, amount) == c % 10 = 0 /\ c - 5 <= amount /\ amount < c + 5

\* C13: a turn's inputTokens, outputTokens and cost are the sums of usage.input,
\* usage.output and usage.cost.total over exactly the assistant messages between
\* the turn's user message and the next one (for buildPublishedSession the cost
\* is that sum rounded); usage of another turn's messages, or of messages before
\* the first user message, is not counted.
C13_TurnSumsOwnUsage ==
  /\ TraceDone =>
        \A k \in 1..NumTurns :
          LET md == trace.value.turns[k].metadata
          IN  /\ md.inputTokens = InputSum(k)
              /\ md.outputTokens = OutputSum(k)
              /\ md.cost = CostSum(k)
  /\ PublishedDone =>
        \A k \in 1..NumTurns :
          LET turn == published.value.turns[k]
          IN  /\ turn.inputTokens = InputSum(k)
              /\ turn.outputTokens = OutputSum(k)
              /\ IsRoundedCost(turn.cost, CostSum(k))

\* Both builders ran on a log with an assistant message before the first user
\* message, a turn of two assistant messages with different usage, and a second
\* turn without a reply: the first turn sums its two messages, the second is 0.
C13_Witness ==
  /\ TraceDone /\ PublishedDone
  /\ Len(entries) = 5
  /\ IsMessageAt(1) /\ entries[1].message.role = "assistant"
  /\ entries[1].message.usage.input = 200
  /\ NumTurns = 2 /\ IsUserAt(2) /\ IsUserAt(5)
  /\ trace.value.turns[1].metadata.inputTokens = 101
  /\ trace.value.turns[1].metadata.outputTokens = 52
  /\ trace.value.turns[1].metadata.cost = 9
  /\ trace.value.turns[2].metadata.inputTokens = 0
  /\ trace.value.turns[2].metadata.cost = 0
  /\ published.value.turns[1].inputTokens = 101
  /\ published.value.turns[1].cost = 10
  /\ published.value.turns[2].outputTokens = 0

\* The timestamps of turn k: its user message's and those of its messages
TurnTimestamps(k) ==
  {entries[UserPos(k)].message.timestamp}
    \cup {entries[i].message.timestamp : i \in SpanPositions(k)}

Maximum(S) == CHOOSE m \in S : \A n \in S : n <= m

\* e is milliseconds / 1000 rounded to the nearest integer, a half rounding up.
IsRoundedSeconds(e, milliseconds) ==
  /\ e \in Nat
  /\ 2000 * e <= 2 * milliseconds + 1000
  /\ 2 * milliseconds + 1000 < 2000 * (e + 1)

\* C14: a turn's elapsed value is (M - U) / 1000 rounded to the nearest integer,
\* U being the timestamp of the turn's user message and M the greatest of U and
\* the timestamps of the turn's messages, tool results included; it is a
\* non-negative integer even when a message of the turn is stamped earlier than
\* U, and 0 for a turn without a reply.
C14_ElapsedIsRoundedSpan ==
  \A k \in 1..NumTurns :
    LET U == entries[UserPos(k)].message.timestamp
        M == Maximum(TurnTimestamps(k))
    IN  /\ TraceDone =>
              /\ IsRoundedSeconds(trace.value.turns[k].metadata.elapsed, M - U)
              /\ SpanPositions(k) = {} => trace.value.turns[k].metadata.elapsed = 0
        /\ PublishedDone =>
              /\ IsRoundedSeconds(published.value.turns[k].elapsed, M - U)
              /\ SpanPositions(k) = {} => published.value.turns[k].elapsed = 0

\* Both builders ran on a log whose first turn holds only a message stamped
\* earlier than its user message and whose second turn ends with a tool result
\* 4.5 s after the user message, the last assistant message being 1.5 s after:
\* the elapsed values are 0 and 5.
C14_Witness ==
  /\ TraceDone /\ PublishedDone
  /\ Len(entries) = 5
  /\ IsUserAt(1) /\ IsUserAt(3)
  /\ entries[2].message.timestamp < entries[1].message.timestamp
  /\ entries[4].message.role = "assistant" /\ entries[4].message.timestamp = 4500
  /\ IsToolResultEntry(entries[5]) /\ entries[5].message.timestamp = 7500
  /\ trace.value.turns[1].metadata.elapsed = 0
  /\ trace.value.turns[2].metadata.elapsed = 5
  /\ published.value.turns[1].elapsed = 0
  /\ published.value.turns[2].elapsed = 5

EmittedCosts == [k \in 1..Len(published.value.turns) |-> published.value.turns[k].cost]

\* C15: in buildPublishedSession the document's totalCost is the sum of the
\* emitted, already rounded costs of its turns, rounded again to a millionth of
\* a dollar, also for logs whose message costs are no multiples of a millionth.
C15_TotalIsSumOfEmittedCosts ==
  PublishedDone =>
    IsRoundedCost(published.value.session.totalCost, Sum(EmittedCosts))

\* buildPublishedSession ran on a log of two turns whose emitted costs are both
\* 0 and returned a totalCost of a millionth of a dollar.
C15_Witness ==
  /\ PublishedDone
  /\ NumTurns = 2
  /\ published.value.turns[1].cost = 0
  /\ published.value.turns[2].cost = 0
  /\ published.value.session.totalCost = 10

MetadataCosts == [k \in 1..Len(trace.value.turns) |-> trace.value.turns[k].metadata.cost]

\* C16: in buildTrace each turn's emitted cost is the sum of the costs of the
\* turn's assistant messages rounded to a millionth of a dollar, so always a
\* multiple of a millionth, and the document's totalCost is the sum of the
\* emitted turn costs.
C16_TurnCostIsRounded ==
  TraceDone =>
    /\ \A k \in 1..NumTurns :
          IsRoundedCost(trace.value.turns[k].metadata.cost, CostSum(k))
    /\ trace.value.totalCost = Sum(MetadataCosts)

\* buildTrace ran on a log of one turn whose only assistant message costs four
\* tenths of a millionth of a dollar and emitted that cost as it is.
C16_Witness ==
  /\ TraceDone
  /\ NumTurns = 1
  /\ CostSum(1) = 4
  /\ trace.value.turns[1].metadata.cost = 4
  /\ trace.value.totalCost = 4

CarriesModel(msg) == IsAssistant(msg) /\ "model" \in DOMAIN msg /\ msg.model # ""

\* The model the log gives turn k: that of the last assistant message of the
\* turn that carries a non-empty one, the empty string when there is none.
LastModel(k) ==
  LET named == SelectSeq(Span(k), CarriesModel)
  IN  IF named = <<>> THEN "" ELSE named[Len(named)].model

\* C17: a turn's model is the model identifier of the last assistant message
\* of the turn that has a non-empty model; an assistant message whose model is
\* empty or missing does not overwrite an earlier one, the model of an earlier
\* turn is not carried over, and a turn none of whose assistant messages has a
\* model gets the empty string.
C17_ModelIsLastNonEmpty ==
  \A k \in 1..NumTurns :
    /\ TraceDone => trace.value.turns[k].metadata.model = LastModel(k)
    /\ PublishedDone => published.value.turns[k].model = LastModel(k)

\* Both builders ran on a log whose first turn holds a message of model m2 and
\* then one with an empty model, and whose second turn holds only a message
\* without a model field: the turns' models are m2 and the empty string.
C17_Witness ==
  /\ TraceDone /\ PublishedDone
  /\ Len(entries) = 5
  /\ IsUserAt(1) /\ IsUserAt(4)
  /\ entries[2] = MessageEntry(AssistantMsg(<<Text(<<"a">>)>>, "m2", Usage(200, 80, 15), 500))
  /\ entries[3] = MessageEntry(AssistantMsg(<<Text(<<"a">>)>>, "", Usage(1, 2, 5), 4500))
  /\ entries[5] = MessageEntry(AssistantNoModel(<<Text(<<"a">>)>>, Usage(10, 20, 10), 4000))
  /\ trace.value.turns[1].metadata.model = "m2"
  /\ trace.value.turns[2].metadata.model = ""
  /\ published.value.turns[1].model = "m2"
  /\ published.value.turns[2].model = ""

----------------------------------------------------------------------------
(* Logs with partial assistant messages: no usage field, or no model field *)

AssistantNoUsage(content, model, ts) ==
  [role |-> "assistant", content |-> content, model |-> model, timestamp |-> ts]

PartialEntries ==
  { MessageEntry(MetricUser),
    MessageEntry(AssistantNoUsage(<<Text(<<"a">>)>>, "m1", 4000)),
    MessageEntry(AssistantNoModel(<<Text(<<"a">>)>>, Usage(10, 20, 10), 4000)),
    MessageEntry(AssistantMsg(<<Text(<<"a">>)>>, "m2", Usage(200, 80, 15), 5000)) }

MaxPartialLog == 3

InitPartial ==
  /\ header = Header
  /\ title = "Test"
  /\ entries \in SeqsUpTo(PartialEntries, MaxPartialLog)
  /\ trace = NotCalled
  /\ published = NotCalled
  /\ locals = FreshScan
  /\ invocations = <<>>
  /\ RestIdle

SpecPartial == InitPartial /\ [][Next]_vars

HasUsage(msg) == "usage" \in DOMAIN msg

\* The assistant messages of turn k that carry usage
Metered(k) == SelectSeq(Assistants(k), HasUsage)

\* C18: in buildTrace an assistant message without a usage field, or without a
\* model field, adds nothing to its turn's token and cost sums and leaves the
\* model as it was, and the call returns a document instead of raising an error.
C18_AbsentUsageCountsZero ==
  /\ trace.status # "threw"
  /\ TraceDone =>
        \A k \in 1..NumTurns :
          LET md == trace.value.turns[k].metadata
          IN  /\ md.inputTokens = Sum([j \in 1..Len(Metered(k)) |-> Metered(k)[j].usage.input])
              /\ md.outputTokens = Sum([j \in 1..Len(Metered(k)) |-> Metered(k)[j].usage.output])
              /\ md.cost = Sum([j \in 1..Len(Metered(k)) |-> Metered(k)[j].usage.cost.total])
              /\ md.model = LastModel(k)

\* Both builders ran on a log of a user message and an assistant message
\* without usage: buildTrace raised a TypeError, buildPublishedSession returned
\* a turn with zero tokens and the message's model.
C18_Witness ==
  /\ entries = <<MessageEntry(MetricUser),
                 MessageEntry(AssistantNoUsage(<<Text(<<"a">>)>>, "m1", 4000))>>
  /\ trace = [status |-> "threw", error |-> "TypeError"]
  /\ PublishedDone
  /\ published.value.turns[1].inputTokens = 0
  /\ published.value.turns[1].cost = 0
  /\ published.value.turns[1].model = "m1"

----------------------------------------------------------------------------
(* A process that compiles again and again: between two invocations the      *)
(* caller may hand over another session.  InvokeBuildTrace keeps in `locals` *)
(* the scanning locals as its last invocation left them and in `invocations` *)
(* the arguments and the result of each of its invocations so far; a single  *)
(* compilation by BuildTrace has no later invocation and leaves both alone.  *)

OtherHeader == [id |-> "abc-123", cwd |-> <<"/", "t">>, timestamp |-> "2026-01-01T00:00:00.000Z"]

PromptEntry == MessageEntry(UserMsg(StringContent(<<"p">>), 1000))

\* Logs that leave a reasoning level or a result behind, and logs that have none
RepeatLogs ==
  { <<PromptEntry>>,
    <<LevelChange("high"), PromptEntry>>,
    <<PromptEntry, LevelChange("high")>>,
    <<PromptEntry, AssistantWith(<<BashCall>>),
      MessageEntry(ToolResultMsg("c1", TRUE, <<Text(<<"e">>)>>, 6000))>>,
    <<PromptEntry, AssistantWith(<<BashCall>>)>> }

Sessions ==
  { [header |-> Header, entries |-> log] : log \in RepeatLogs }
    \cup { [header |-> OtherHeader, entries |-> <<LevelChange("high"), PromptEntry>>] }

Titles == {"Test", "My Title"}

MaxCalls == 3

InitRepeat ==
  /\ \E s \in Sessions : header = s.header /\ entries = s.entries
  /\ title \in Titles
  /\ trace = NotCalled
  /\ published = NotCalled
  /\ locals = FreshScan
  /\ invocations = <<>>
  /\ RestIdle

\* One more invocation of buildTrace on the session at hand.
InvokeBuildTrace ==
  /\ Len(invocations) < MaxCalls
  /\ locals' = traceScan(entries)
  /\ trace' = Returned(buildTrace(header, entries, title))
  /\ invocations' = Append(invocations, [header |-> header, entries |-> entries,
                                          title |-> title, result |-> trace'])
  /\ UNCHANGED <<header, entries, title, published, restVars>>

\* The caller turns to another session.
LoadSession ==
  /\ \E s \in Sessions :
        /\ <<s.header, s.entries>> # <<header, entries>>
        /\ header' = s.header
        /\ entries' = s.entries
  /\ UNCHANGED <<title, trace, published, locals, invocations, restVars>>

NextRepeat == InvokeBuildTrace \/ LoadSession

SpecRepeat == InitRepeat /\ [][NextRepeat]_vars

SameArguments(c, d) == c.header = d.header /\ c.entries = d.entries /\ c.title = d.title

----------------------------------------------------------------------------
(* Entries of other kinds *)

IsCompiledEntry(e) == e.type \in {"message", "thinking_level_change"}

\* The log with every entry removed that is neither a message nor a level change
WithoutOtherEntries == SelectSeq(entries, IsCompiledEntry)

\* C20: entries whose type is neither message nor thinking-level-change, such
\* as model_change, change nothing: wherever they stand in the log, either
\* builder returns the document it returns for the log without them, and none
\* raises an error.
C20_OtherEntriesChangeNothing ==
  /\ trace.status # "threw" /\ published.status # "threw"
  /\ TraceDone => trace.value = buildTrace(header, WithoutOtherEntries, title)
  /\ PublishedDone =>
        published.value = buildPublishedSession(header, WithoutOtherEntries, title)

\* Both builders ran on a log with a model change between the level change and
\* the user message and another between the user message and its reply: the
\* one turn has the level and the reply's steps.
C20_Witness ==
  /\ TraceDone /\ PublishedDone
  /\ Len(entries) = 5
  /\ entries[1] = LevelChange("high") /\ entries[2] = ModelChange
  /\ IsUserAt(3) /\ entries[4] = ModelChange
  /\ IsMessageAt(5) /\ entries[5].message.role = "assistant"
  /\ Len(trace.value.turns) = 1
  /\ trace.value.turns[1].metadata.thinkingLevel = "high"
  /\ Len(trace.value.turns[1].completion.steps) = 2
  /\ Len(published.value.turns) = 1
  /\ published.value.turns[1].thinkingLevel = "high"
  /\ Len(published.value.turns[1].steps) = 2

----------------------------------------------------------------------------
(* Calls of the helpers on their own *)

\* No session at hand: the builders are not part of the run.
TransformIdle ==
  /\ header = Header
  /\ entries = <<>>
  /\ title = "Test"
  /\ trace = NotCalled
  /\ published = NotCalled
  /\ locals = FreshScan
  /\ invocations = <<>>

transformVars == <<header, entries, title, trace, published, locals, invocations>>

\* What a helper that returns a string hands back
ReturnedString(v) == [status |-> "returned", value |-> v]

\* Path segments: an empty one gives a leading, doubled or trailing slash; hx
\* starts like the home directory /h without lying under it.
PathSegmentSet == { <<>>, <<"h">>, <<"r">>, <<"a">>, <<"h", "x">> }

MaxSegments == 6

PathSet == { Join(segs, <<"/">>) : segs \in SeqsUpTo(PathSegmentSet, MaxSegments) }

\* Working directories outside and under the home directory
CwdSet == { <<"/", "a">>, <<"/", "h", "/", "a">> }

InitPath ==
  /\ TransformIdle
  /\ helperArgs \in { [function |-> "shortenPath", fullPath |-> path, cwd |-> cwd] :
                         path \in PathSet, cwd \in CwdSet }
  /\ helperResult = NotCalled
  /\ legacy = NotCalled
  /\ TitleIdle
  /\ HandlerIdle

ShortenPath ==
  /\ helperArgs.function = "shortenPath"
  /\ helperResult = NotCalled
  /\ helperResult' = ReturnedString(shortenPath(helperArgs.fullPath, helperArgs.cwd))
  /\ UNCHANGED <<transformVars, helperArgs, legacy, titleCall, publishers, tmpFile, outFiles, gists>>

SpecPath == InitPath /\ [][ShortenPath]_vars

\* path is dir itself or lies below it
IsUnder(path, dir) ==
  \/ path = dir
  \/ Len(path) > Len(dir) /\ SubSeq(path, 1, Len(dir) + 1) = dir \o <<"/">>

\* What follows dir and its slash in a path below dir
Below(path, dir) == SubSeq(path, Len(dir) + 2, Len(path))

\* The non-empty segments of a path, in order
RECURSIVE PathSegments(_)
PathSegments(s) ==
  IF s = <<>> THEN <<>>
  ELSE IF s[Len(s)] = "/" THEN PathSegments(SubSeq(s, 1, Len(s) - 1))
  ELSE LET slashes == {i \in 1..Len(s) : s[i] = "/"}
           start   == IF slashes = {} THEN 1 ELSE Maximum(slashes) + 1
       IN  Append(PathSegments(SubSeq(s, 1, start - 1)), SubSeq(s, start, Len(s)))

RECURSIVE SlashJoined(_)
SlashJoined(parts) ==
  IF parts = <<>> THEN <<>>
  ELSE IF Len(parts) = 1 THEN parts[1]
  ELSE SlashJoined(SubSeq(parts, 1, Len(parts) - 1)) \o <<"/">> \o parts[Len(parts)]

\* The home directory a path lies under: the nominal one first
HomeOf(path) == IF IsUnder(path, home) THEN home ELSE homeReal

\* A path as it is shown for a working directory
Shortened(path, cwd) ==
  LET segs == PathSegments(Below(path, HomeOf(path)))
  IN  IF path = cwd THEN <<".">>
      ELSE IF IsUnder(path, cwd) THEN Below(path, cwd)
      ELSE IF IsUnder(path, home) \/ IsUnder(path, homeReal)
           THEN IF Len(segs) <= 3
                THEN <<"~", "/">> \o SlashJoined(segs)
                ELSE <<"~", "/", ".", ".", ".", "/">>
                       \o SlashJoined(SubSeq(segs, Len(segs) - 2, Len(segs)))
      ELSE path

\* C21: shortenPath(path, cwd) gives "." for a path equal to cwd and the path
\* without the prefix for a path that starts with cwd and a slash, also when
\* cwd lies under the home directory; otherwise a path under the home
\* directory, nominal or real, becomes ~/ and its segments when these are at
\* most 3, and ~/.../ and its last 3 segments when they are more; every other
\* path comes back unchanged.
C21_ShortenPathRules ==
  helperArgs.function = "shortenPath" /\ helperResult.status = "returned" =>
    helperResult.value = Shortened(helperArgs.fullPath, helperArgs.cwd)

\* shortenPath ran on a path four segments below the home directory, with a
\* working directory under the home directory that the path is not below: the
\* result keeps the last three segments after the elision.
C21_Witness ==
  /\ helperArgs.function = "shortenPath"
  /\ helperArgs.cwd = <<"/", "h", "/", "a">>
  /\ helperArgs.fullPath = <<"/", "h", "/", "r", "/", "a", "/", "h", "x", "/", "a">>
  /\ helperResult = ReturnedString(<<"~", "/", ".", ".", ".", "/", "a", "/", "h", "x", "/", "a">>)

----------------------------------------------------------------------------
(* titleFromFirstUserLine *)

MaxTitleChars == 30

DefaultTitle ==
  <<"S", "h", "a", "r", "e", "d", " ", "s", "e", "s", "s", "i", "o", "n">>

\* String.prototype.slice(0, n)
SliceTo(s, n) == SubSeq(s, 1, IF Len(s) < n THEN Len(s) ELSE n)

\* The text the title is taken from: a string content as it is, the text
\* blocks of an array content, nothing of any other content.
titleText(msg) ==
  IF msg.content.kind = "string" THEN msg.content.text
  ELSE IF msg.content.kind = "blocks" THEN extractTextContent(msg.content.blocks)
  ELSE <<>>

\* text.split("\n")[0]?.trim() ?? ""
titleFirstLine(msg) == Trim(Split(titleText(msg), "\n")[1])

\* The loop with a slip: the first user message ends it, blank or not.
RECURSIVE titleLoopStopsAtFirstUser(_, _)
titleLoopStopsAtFirstUser(messages, i) ==
  IF i > Len(messages) THEN DefaultTitle
  ELSE IF messages[i].role # "user" THEN titleLoopStopsAtFirstUser(messages, i + 1)
  ELSE IF titleFirstLine(messages[i]) # <<>>
       THEN SliceTo(titleFirstLine(messages[i]), MaxTitleChars)
       ELSE DefaultTitle

\* The loop over the messages, from the i-th on
RECURSIVE titleLoop(_, _)
titleLoop(messages, i) ==
  IF i > Len(messages) THEN DefaultTitle
  ELSE IF messages[i].role # "user" THEN titleLoop(messages, i + 1)
  ELSE IF titleFirstLine(messages[i]) # <<>>
       THEN SliceTo(titleFirstLine(messages[i]), MaxTitleChars)
       ELSE titleLoop(messages, i + 1)

titleFromFirstUserLine(messages) == titleLoop(messages, 1)

\* A content that is neither a string nor an array
NoContent == [kind |-> "none"]

\* A padded first line of 31 characters after trimming, a blank at the 30th
LongLine ==
  <<" ">> \o [i \in 1..(MaxTitleChars - 1) |-> "x"] \o <<" ", "y", " ", "\n", "z">>

TitleMessages ==
  { UserMsg(StringContent(<<" ", "h", "i", " ", "\n", "x">>), 1000),
    UserMsg(StringContent(<<" ", "\n", "b">>), 1000),
    UserMsg(StringContent(<<>>), 1000),
    UserMsg(StringContent(LongLine), 1000),
    UserMsg(BlockContent(<<Text(<<>>), Image, Text(<<" ", "q">>), Text(<<"r">>)>>), 1000),
    UserMsg(BlockContent(<<Image>>), 1000),
    UserMsg(NoContent, 1000),
    AssistantMsg(<<Text(<<"a">>)>>, "m1", Usage(100, 50, 15), 5000),
    ToolResultMsg("c1", FALSE, <<Text(<<"o">>)>>, 6000) }

MaxTitleLog == 3

InitTitle ==
  /\ TransformIdle
  /\ helperArgs \in { [function |-> "titleFromFirstUserLine", messages |-> messages] :
                         messages \in SeqsUpTo(TitleMessages, MaxTitleLog) }
  /\ helperResult = NotCalled
  /\ legacy = NotCalled
  /\ TitleIdle
  /\ HandlerIdle

TitleFromFirstUserLine ==
  /\ helperArgs.function = "titleFromFirstUserLine"
  /\ helperResult = NotCalled
  /\ helperResult' = ReturnedString(titleFromFirstUserLine(helperArgs.messages))
  /\ UNCHANGED <<transformVars, helperArgs, legacy, titleCall, publishers, tmpFile, outFiles, gists>>

SpecTitle == InitTitle /\ [][TitleFromFirstUserLine]_vars

TitleDone ==
  helperArgs.function = "titleFromFirstUserLine" /\ helperResult.status = "returned"

\* The text of a user message: its string, or its non-empty text blocks one per
\* line
UserText(msg) ==
  IF msg.content.kind = "string" THEN msg.content.text
  ELSE IF msg.content.kind = "blocks"
       THEN LET filled == SelectSeq(msg.content.blocks, IsFilledText)
            IN  NewlineJoined([j \in 1..Len(filled) |-> filled[j].text])
       ELSE <<>>

\* s without the white space at its ends
Stripped(s) ==
  LET inked == {i \in 1..Len(s) : s[i] \notin {" ", "\n", "\t"}}
  IN  IF inked = {} THEN <<>>
      ELSE SubSeq(s, CHOOSE i \in inked : \A j \in inked : i <= j, Maximum(inked))

\* The first line of a user message's text, trimmed
FirstLine(msg) ==
  LET text   == UserText(msg)
      breaks == {i \in 1..Len(text) : text[i] = "\n"}
  IN  IF breaks = {} THEN Stripped(text)
      ELSE Stripped(SubSeq(text, 1, (CHOOSE i \in breaks : \A j \in breaks : i <= j) - 1))

\* t is s cut to its first 30 characters
IsCutTitle(t, s) ==
  /\ Len(t) = IF Len(s) > MaxTitleChars THEN MaxTitleChars ELSE Len(s)
  /\ t = SubSeq(s, 1, Len(t))

UsersOf(messages) == {i \in 1..Len(messages) : messages[i].role = "user"}

\* C22 as the specification states it: titleFromFirstUserLine returns the
\* trimmed first line of the first user message's text cut to 30 characters,
\* returns the default label only when the list holds no user message, and
\* never returns an empty title.
C22_FirstUserMessageDecides ==
  TitleDone =>
    LET messages == helperArgs.messages
        users    == UsersOf(messages)
    IN  /\ helperResult.value # <<>>
        /\ helperResult.value = DefaultTitle <=> users = {}
        /\ users # {} =>
             IsCutTitle(helperResult.value,
                        FirstLine(messages[CHOOSE i \in users : \A j \in users : i <= j]))

\* C22: titleFromFirstUserLine returns the trimmed first line, cut to 30
\* characters, of the first user message whose first line is not blank, so a
\* line of more than 30 characters gives exactly 30; it returns the default
\* label exactly when no user message has a first line that is not blank, and
\* it never returns an empty title.
C22_FirstNonBlankLineDecides ==
  TitleDone =>
    LET messages == helperArgs.messages
        titled   == {i \in UsersOf(messages) : FirstLine(messages[i]) # <<>>}
        line     == FirstLine(messages[CHOOSE i \in titled : \A j \in titled : i <= j])
    IN  /\ helperResult.value # <<>>
        /\ titled = {} => helperResult.value = DefaultTitle
        /\ titled # {} =>
             /\ IsCutTitle(helperResult.value, line)
             /\ Len(line) > MaxTitleChars => Len(helperResult.value) = MaxTitleChars

\* titleFromFirstUserLine ran on a user message with a blank first line followed
\* by an assistant message and a user message with a long first line: the title
\* is the first 30 characters of the long line.
C22_Witness ==
  /\ TitleDone
  /\ helperArgs.messages =
       << UserMsg(StringContent(<<" ", "\n", "b">>), 1000),
          AssistantMsg(<<Text(<<"a">>)>>, "m1", Usage(100, 50, 15), 5000),
          UserMsg(StringContent(LongLine), 1000) >>
  /\ helperResult.value = [i \in 1..(MaxTitleChars - 1) |-> "x"] \o <<" ">>

----------------------------------------------------------------------------
(* truncateOutput *)

\* n times the character x
Fill(n) == [i \in 1..n |-> "x"]

\* How far below the byte budget the shortest filling ends
MaxSlack == 3

\* What an output starts with: a line break at index 0, a short first line, a
\* two-byte character
OutputHeads == { <<>>, <<"\n">>, <<"a", "\n">>, <<"U+00E9">> }

\* What follows the filling, on either side of the byte budget
OutputTails ==
  { <<>>, <<"\n">>, <<"U+00E9">>, <<"U+2026", "b">>, <<"\n", "b">> }

Outputs ==
  { <<>>, <<"s", "h", "o", "r", "t">> }
    \cup { head \o Fill(n) \o tail :
             head \in OutputHeads, tail \in OutputTails,
             n \in (MAX_TOOL_OUTPUT_BYTES - MaxSlack)..(MAX_TOOL_OUTPUT_BYTES + 1) }

InitTruncate ==
  /\ TransformIdle
  /\ helperArgs \in { [function |-> "truncateOutput", output |-> output] :
                         output \in Outputs }
  /\ helperResult = NotCalled
  /\ legacy = NotCalled
  /\ TitleIdle
  /\ HandlerIdle

TruncateOutput ==
  /\ helperArgs.function = "truncateOutput"
  /\ helperResult = NotCalled
  /\ helperResult' = ReturnedString(truncateOutput(helperArgs.output))
  /\ UNCHANGED <<transformVars, helperArgs, legacy, titleCall, publishers, tmpFile, outFiles, gists>>

SpecTruncate == InitTruncate /\ [][TruncateOutput]_vars

TruncateDone ==
  helperArgs.function = "truncateOutput" /\ helperResult.status = "returned"

\* The UTF-8 length of s: one byte a character, one more for a two-byte and two
\* more for a three-byte character
Bytes(s) ==
  Len(s) + Cardinality({i \in 1..Len(s) : s[i] = "U+00E9"})
         + 2 * Cardinality({i \in 1..Len(s) : s[i] \in {"U+2026", "U+FFFD"}})

\* The first n characters of s
Prefix(s, n) == SubSeq(s, 1, n)

\* out without the truncation marker it ends with
Retained(out) == Prefix(out, Len(out) - Len(TruncationMarker))

EndsWithMarker(out) ==
  /\ Len(out) >= Len(TruncationMarker)
  /\ SubSeq(out, Len(out) - Len(TruncationMarker) + 1, Len(out)) = TruncationMarker

\* The positions in s of the line breaks that lie within the byte budget
BreaksWithinBudget(s) ==
  {i \in 1..Len(s) : s[i] = "\n" /\ Bytes(Prefix(s, i)) <= MAX_TOOL_OUTPUT_BYTES}

\* kept is s cut at the byte budget: the longest prefix of s within it
IsRawCut(kept, s) ==
  /\ Len(kept) < Len(s)
  /\ kept = Prefix(s, Len(kept))
  /\ Bytes(kept) <= MAX_TOOL_OUTPUT_BYTES
  /\ Bytes(Prefix(s, Len(kept) + 1)) > MAX_TOOL_OUTPUT_BYTES

\* C23: truncateOutput returns an output of at most 4096 UTF-8 bytes unchanged;
\* a longer output comes back as a retained part followed by the truncation
\* marker, the retained part being the input up to the last line break within
\* the first 4096 bytes, at index 0 too, or the input cut at 4096 bytes when
\* no line break lies within them: always a prefix of the input of at most
\* 4096 bytes.
C23_RetainsPrefixWithinBudget ==
  TruncateDone =>
    LET output == helperArgs.output
        out    == helperResult.value
        breaks == BreaksWithinBudget(output)
    IN  IF Bytes(output) <= MAX_TOOL_OUTPUT_BYTES THEN out = output
        ELSE /\ EndsWithMarker(out)
             /\ Retained(out) = Prefix(output, Len(Retained(out)))
             /\ Bytes(Retained(out)) <= MAX_TOOL_OUTPUT_BYTES
             /\ IF breaks = {} THEN IsRawCut(Retained(out), output)
                ELSE Retained(out) = Prefix(output, Maximum(breaks) - 1)

\* truncateOutput ran on an output over the budget whose only line break is its
\* first character: the whole 4096-byte cut is kept, line break included.
C23_Witness ==
  /\ TruncateDone
  /\ helperArgs.output = <<"\n">> \o Fill(MAX_TOOL_OUTPUT_BYTES)
  /\ helperResult.value =
       <<"\n">> \o Fill(MAX_TOOL_OUTPUT_BYTES - 1) \o TruncationMarker

\* truncateOutput ran on an output whose two-byte character straddles the
\* 4096th byte: the retained part ends with a replacement character the input
\* does not hold and is 4098 bytes long.
C23_SplitCharacter ==
  /\ TruncateDone
  /\ helperArgs.output = Fill(MAX_TOOL_OUTPUT_BYTES - 1) \o <<"U+00E9">>
  /\ helperResult.value =
       Fill(MAX_TOOL_OUTPUT_BYTES - 1) \o <<"U+FFFD">> \o TruncationMarker

----------------------------------------------------------------------------
(* Diff payloads of edit calls *)

EditArgs(path, oldText, newText) ==
  << <<KeyPath, path>>, <<KeyOldText, oldText>>, <<KeyNewText, newText>> >>

\* Arguments of a call: complete, with an empty or a missing member, with a
\* path under the home directory, with texts that hold white space
CallArgs ==
  { EditArgs(<<"/", "w", "/", "f">>, <<" ", "a", "\n">>, <<"b", " ">>),
    EditArgs(<<"/", "h", "/", "a", "/", "b", "/", "c", "/", "d">>, <<"a">>, <<"b">>),
    EditArgs(<<>>, <<"a">>, <<"b">>),
    EditArgs(<<"/", "w", "/", "f">>, <<>>, <<"b">>),
    EditArgs(<<"/", "w", "/", "f">>, <<"a">>, <<>>),
    << <<KeyPath, <<"/", "w", "/", "f">>>>, <<KeyNewText, <<"b">>>> >>,
    << <<KeyOldText, <<"a">>>>, <<KeyNewText, <<"b">>>> >> }

\* Calls of edit and of another tool with each of the arguments, and an edit
\* call without arguments
DiffCalls ==
  { ToolCall("c4", name, args) : name \in {"edit", "write"}, args \in CallArgs }
    \cup { [type |-> "toolCall", id |-> "c4", name |-> "edit"] }

DiffEntries ==
  { AssistantWith(<<call>>) : call \in DiffCalls }
    \cup { MessageEntry(ToolResultMsg("c4", FALSE, <<Text(<<"o">>)>>, 6000)),
           MessageEntry(ToolResultMsg("c4", TRUE, <<Text(<<"e">>)>>, 7000)) }

MaxDiffLog == 2

InitDiff ==
  /\ header = Header
  /\ title = "Test"
  /\ entries \in { <<MessageEntry(UserMsg(StringContent(<<"p">>), 1000))>> \o tail :
                      tail \in SeqsUpTo(DiffEntries, MaxDiffLog) }
  /\ trace = NotCalled
  /\ published = NotCalled
  /\ locals = FreshScan
  /\ invocations = <<>>
  /\ RestIdle

SpecDiff == InitDiff /\ [][BuildPublishedSession]_vars

\* The value a call's arguments give a key, empty when they do not hold it
Argument(call, key) ==
  IF "arguments" \in DOMAIN call /\ \E i \in 1..Len(call.arguments) : call.arguments[i][1] = key
  THEN call.arguments[CHOOSE i \in 1..Len(call.arguments) : call.arguments[i][1] = key][2]
  ELSE <<>>

HasDiff(step) == "diff" \in DOMAIN step

\* C24: in buildPublishedSession a tool step carries a diff exactly when the
\* tool is edit and the call's arguments hold a non-empty path, a non-empty old
\* text and a non-empty new text; the diff then holds the path as it is shown
\* for the session's working directory and the two texts as they are, whether
\* the call has no result, a successful one or a failed one.
C24_DiffIffCompleteEdit ==
  PublishedDone =>
    \A k \in 1..NumTurns :
      LET tools == SelectSeq(published.value.turns[k].steps, IsToolStep)
          calls == SelectSeq(FlatBlocks(Span(k)), IsCall)
      IN  /\ Len(tools) = Len(calls)
          /\ \A j \in 1..Len(tools) :
                LET call == calls[j].block
                IN  /\ HasDiff(tools[j]) <=>
                          /\ call.name = "edit"
                          /\ Argument(call, KeyPath) # <<>>
                          /\ Argument(call, KeyOldText) # <<>>
                          /\ Argument(call, KeyNewText) # <<>>
                    /\ HasDiff(tools[j]) =>
                          tools[j].diff =
                            [path    |-> Shortened(Argument(call, KeyPath), header.cwd),
                             oldText |-> Argument(call, KeyOldText),
                             newText |-> Argument(call, KeyNewText)]

\* buildPublishedSession ran on a complete edit call followed by its failed
\* result: the step is not ok and carries the diff with the path relative to
\* the working directory and the texts with their white space.
C24_Witness ==
  /\ PublishedDone
  /\ Len(entries) = 3
  /\ entries[2] = AssistantWith(<<ToolCall("c4", "edit",
                     EditArgs(<<"/", "w", "/", "f">>, <<" ", "a", "\n">>, <<"b", " ">>))>>)
  /\ entries[3] = MessageEntry(ToolResultMsg("c4", TRUE, <<Text(<<"e">>)>>, 7000))
  /\ ~published.value.turns[1].steps[1].ok
  /\ published.value.turns[1].steps[1].diff =
       [path |-> <<"f">>, oldText |-> <<" ", "a", "\n">>, newText |-> <<"b", " ">>]

----------------------------------------------------------------------------
(* Results anywhere in the log *)

\* A prompt, a bash call, and results for it that differ in flag and text
CorrelateEntries ==
  { MessageEntry(UserMsg(StringContent(<<"p">>), 1000)),
    AssistantWith(<<BashCall>>),
    MessageEntry(ToolResultMsg("c1", FALSE, <<Text(<<"o">>)>>, 6000)),
    MessageEntry(ToolResultMsg("c1", TRUE, <<Text(<<"e">>)>>, 7000)),
    MessageEntry(ToolResultMsg("c1", FALSE, <<>>, 8000)) }

MaxCorrelateLog == 5

InitCorrelate ==
  /\ header = Header
  /\ title = "Test"
  /\ entries \in SeqsUpTo(CorrelateEntries, MaxCorrelateLog)
  /\ trace = NotCalled
  /\ published = NotCalled
  /\ locals = FreshScan
  /\ invocations = <<>>
  /\ RestIdle

SpecCorrelate == InitCorrelate /\ [][Next]_vars

\* What the log's last result for a bash call makes of the step: its flag,
\* and its text when it has one
SaysLastResult(step, id) ==
  IF HasResult(id)
  THEN /\ step.ok = ~LastResult(id).isError
       /\ HasOutput(step) <=> ResultText(LastResult(id)) # <<>>
       /\ HasOutput(step) => step.output = ResultText(LastResult(id))
  ELSE step.ok /\ ~HasOutput(step)

\* C25: the result correlated with a tool call is the last toolResult entry of
\* the whole log that carries the call's identifier.  A later duplicate
\* replaces an earlier one, and the result counts wherever it stands: in the
\* call's turn, in a later turn, in an earlier turn or before the first user
\* message; in either builder it decides the step's ok flag and output.
C25_LastResultOfLogDecides ==
  /\ TraceDone =>
        \A k \in 1..NumTurns :
          LET actions == SelectSeq(trace.value.turns[k].completion.steps, IsAction)
              calls   == SelectSeq(FlatBlocks(Span(k)), IsCall)
          IN  /\ Len(actions) = Len(calls)
              /\ \A j \in 1..Len(actions) : SaysLastResult(actions[j], calls[j].block.id)
  /\ PublishedDone =>
        \A k \in 1..NumTurns :
          LET tools == SelectSeq(published.value.turns[k].steps, IsToolStep)
              calls == SelectSeq(FlatBlocks(Span(k)), IsCall)
          IN  /\ Len(tools) = Len(calls)
              /\ \A j \in 1..Len(tools) : SaysLastResult(tools[j], calls[j].block.id)

\* Both builders ran on a log with a successful result before the first user
\* message, the call in the first turn, and an errored result in a second
\* turn: the step is not ok and carries the errored result's text.
C25_Witness ==
  /\ TraceDone /\ PublishedDone
  /\ entries = << MessageEntry(ToolResultMsg("c1", FALSE, <<Text(<<"o">>)>>, 6000)),
                  MessageEntry(UserMsg(StringContent(<<"p">>), 1000)),
                  AssistantWith(<<BashCall>>),
                  MessageEntry(UserMsg(StringContent(<<"p">>), 1000)),
                  MessageEntry(ToolResultMsg("c1", TRUE, <<Text(<<"e">>)>>, 7000)) >>
  /\ ~trace.value.turns[1].completion.steps[1].ok
  /\ trace.value.turns[1].completion.steps[1].output = <<"e">>
  /\ ~published.value.turns[1].steps[1].ok
  /\ published.value.turns[1].steps[1].output = <<"e">>

----------------------------------------------------------------------------
(* generateTitle *)

\* collectUserPrompts: the trimmed texts of the user messages that have one, a
\* blank line between them
RECURSIVE collectLoop(_, _)
collectLoop(messages, i) ==
  IF i > Len(messages) THEN <<>>
  ELSE IF messages[i].role = "user" /\ Trim(titleText(messages[i])) # <<>>
       THEN <<Trim(titleText(messages[i]))>> \o collectLoop(messages, i + 1)
       ELSE collectLoop(messages, i + 1)

collectUserPrompts(messages) == Join(collectLoop(messages, 1), <<"\n", "\n">>)

RECURSIVE StripStart(_, _)
StripStart(s, chars) ==
  IF s # <<>> /\ Head(s) \in chars THEN StripStart(Tail(s), chars) ELSE s

RECURSIVE StripEnd(_, _)
StripEnd(s, chars) ==
  IF s # <<>> /\ s[Len(s)] \in chars THEN StripEnd(SubSeq(s, 1, Len(s) - 1), chars) ELSE s

\* The quote characters the cleaning strips; the backtick is written U+0060.
QuoteChars == {"\"", "'", "U+0060"}

\* raw.replace(/^#+\s*/, "")
stripHeading(raw) ==
  IF raw # <<>> /\ Head(raw) = "#" THEN TrimStart(StripStart(raw, {"#"})) ELSE raw

\* The text of the response's text blocks, joined and trimmed, without heading
\* marks, surrounding quotes and trailing periods
cleanTitle(content) ==
  LET texts == SelectSeq(content, IsTextBlock)
      raw   == Trim(Join([i \in 1..Len(texts) |-> texts[i].text], <<>>))
  IN  Trim(StripEnd(StripEnd(StripStart(stripHeading(raw), QuoteChars), QuoteChars), {"."}))

Resolved(v) == [status |-> "resolved", value |-> v]

Rejected == [status |-> "rejected"]

Pending == [status |-> "pending"]

\* How the awaited completeSimple ends: the title of its response or the
\* fallback, after the finally block cleared the timer; a rejection is caught
\* by the outer catch.  With a slip: the timer is cleared on success only.
afterCompletionClearsOnSuccess(call, response) ==
  IF response.status = "rejected"
  THEN [call EXCEPT !.pc = "done", !.response = response,
                    !.outcome = Resolved(call.fallback)]
  ELSE [call EXCEPT !.pc = "done", !.response = response, !.timer = "cleared",
                    !.outcome = IF cleanTitle(response.value) # <<>>
                                THEN Resolved(cleanTitle(response.value))
                                ELSE Resolved(call.fallback)]

\* How the awaited completeSimple ends: the title of its response or the
\* fallback, after the finally block cleared the timer; a rejection is caught
\* by the outer catch.
afterCompletion(call, response) ==
  [call EXCEPT !.pc = "done", !.response = response, !.timer = "cleared",
               !.outcome = IF response.status = "rejected" THEN Resolved(call.fallback)
                           ELSE IF cleanTitle(response.value) # <<>>
                                THEN Resolved(cleanTitle(response.value))
                                ELSE Resolved(call.fallback)]

\* How the awaited getApiKey ends: without a key, without user text or after a
\* rejection generateTitle returns the fallback; otherwise it arms the abort
\* timer and starts the request.
afterApiKey(call, apiKey) ==
  IF apiKey.status = "rejected" \/ apiKey.value = <<>>
       \/ collectUserPrompts(call.messages) = <<>>
  THEN [call EXCEPT !.pc = "done", !.apiKey = apiKey, !.outcome = Resolved(call.fallback)]
  ELSE [call EXCEPT !.pc = "completeSimple", !.apiKey = apiKey, !.timer = "armed"]

\* Messages: a titled prompt, an assistant message, a prompt whose first line
\* is blank, a prompt without text, an empty prompt, a prompt of two blocks
PromptMessages ==
  { UserMsg(StringContent(<<" ", "h", "i", " ", "\n", "x">>), 1000),
    AssistantMsg(<<Text(<<"a">>)>>, "m1", Usage(100, 50, 15), 5000),
    UserMsg(StringContent(<<" ", "\n", "b">>), 1000),
    UserMsg(BlockContent(<<Image>>), 1000),
    UserMsg(StringContent(<<>>), 1000),
    UserMsg(BlockContent(<<Text(<<"q">>), Text(<<"r">>)>>), 3000) }

MaxPrompts == 2

TitleLogs == SeqsUpTo(PromptMessages, MaxPrompts)

\* What getApiKey resolves to: a key, or none
ApiKeys == { <<"k">>, <<>> }

\* Contents of a response: a plain title, a title in heading marks, quotes and
\* periods over two blocks, a quote left inside, and replies that clean to nothing
Replies ==
  { <<Text(<<" ", "T", "\n">>)>>,
    <<Thinking(<<"t">>), Text(<<"#", "#", " ", "\"">>), Text(<<"A", " ", "b", ".", "\"", ".", ".">>)>>,
    <<Text(<<"U+0060", "A", "'", ".", "U+0060">>)>>,
    <<Text(<<"#", " ", "'", ".", ".", "'", " ">>)>>,
    <<Text(<<>>)>>,
    <<Thinking(<<"t">>)>>,
    <<>> }

Models == { "m1", Undefined }

InitGenerate ==
  /\ TransformIdle
  /\ HelperIdle
  /\ legacy = NotCalled
  /\ titleCall \in { [pc |-> "called", messages |-> messages, model |-> model,
                        fallback |-> <<>>, apiKey |-> Pending, response |-> Pending,
                        timer |-> "unset", aborted |-> FALSE, outcome |-> Pending] :
                        messages \in TitleLogs, model \in Models }
  /\ HandlerIdle

titleQuiet ==
  <<transformVars, helperArgs, helperResult, legacy, publishers, tmpFile, outFiles, gists>>

\* generateTitle up to its first await
GenerateTitle ==
  /\ titleCall.pc = "called"
  /\ titleCall' =
       LET fallback == titleFromFirstUserLine(titleCall.messages)
       IN  IF titleCall.model = Undefined
           THEN [titleCall EXCEPT !.pc = "done", !.fallback = fallback,
                                  !.outcome = Resolved(fallback)]
           ELSE [titleCall EXCEPT !.pc = "getApiKey", !.fallback = fallback]
  /\ UNCHANGED titleQuiet

ApiKeyResolves ==
  /\ titleCall.pc = "getApiKey"
  /\ \E key \in ApiKeys : titleCall' = afterApiKey(titleCall, Resolved(key))
  /\ UNCHANGED titleQuiet

ApiKeyRejects ==
  /\ titleCall.pc = "getApiKey"
  /\ titleCall' = afterApiKey(titleCall, Rejected)
  /\ UNCHANGED titleQuiet

\* The timer callback: controller.abort()
TimerFires ==
  /\ titleCall.pc = "completeSimple"
  /\ titleCall.timer = "armed"
  /\ titleCall' = [titleCall EXCEPT !.timer = "fired", !.aborted = TRUE]
  /\ UNCHANGED titleQuiet

\* The request ends with a response; an aborted request does not.
CompletionResolves ==
  /\ titleCall.pc = "completeSimple"
  /\ ~titleCall.aborted
  /\ \E content \in Replies : titleCall' = afterCompletion(titleCall, Resolved(content))
  /\ UNCHANGED titleQuiet

\* The request fails, or ends because its signal was aborted.
CompletionRejects ==
  /\ titleCall.pc = "completeSimple"
  /\ titleCall' = afterCompletion(titleCall, Rejected)
  /\ UNCHANGED titleQuiet

NextGenerate ==
  \/ GenerateTitle
  \/ ApiKeyResolves
  \/ ApiKeyRejects
  \/ TimerFires
  \/ CompletionResolves
  \/ CompletionRejects

SpecGenerate == InitGenerate /\ [][NextGenerate]_vars

\* The title the first-line rule gives a message list
FallbackTitle(messages) ==
  LET titled == {i \in UsersOf(messages) : FirstLine(messages[i]) # <<>>}
      line   == FirstLine(messages[CHOOSE i \in titled : \A j \in titled : i <= j])
  IN  IF titled = {} THEN DefaultTitle
      ELSE Prefix(line, IF Len(line) > MaxTitleChars THEN MaxTitleChars ELSE Len(line))

HoldsUserText(messages) ==
  \E i \in UsersOf(messages) : Stripped(UserText(messages[i])) # <<>>

\* The title each response of the model cleans to
ReplyTitle(content) ==
  CASE content = <<Text(<<" ", "T", "\n">>)>> -> <<"T">>
    [] content = <<Thinking(<<"t">>), Text(<<"#", "#", " ", "\"">>),
                   Text(<<"A", " ", "b", ".", "\"", ".", ".">>)>> -> <<"A", " ", "b", ".", "\"">>
    [] content = <<Text(<<"U+0060", "A", "'", ".", "U+0060">>)>> -> <<"A", "'">>
    [] OTHER -> <<>>

GenerateDone == titleCall.pc = "done"

\* The cases in which the first-line title is to be returned
FallsBack ==
  \/ titleCall.model = Undefined
  \/ titleCall.apiKey = Rejected
  \/ titleCall.apiKey = Resolved(<<>>)
  \/ ~HoldsUserText(titleCall.messages)
  \/ titleCall.response = Rejected
  \/ titleCall.aborted
  \/ titleCall.response.status = "resolved" /\ ReplyTitle(titleCall.response.value) = <<>>

----------------------------------------------------------------------------
(* The /publish handler that uploads a gist *)

\* renderSession: the HTML page of a payload
renderSession(payload) == [document |-> payload]

\* header.id.slice(0, 8) of the session identifiers at hand
slugOf(id) == IF id = "session-1" THEN "session-" ELSE id

\* How an awaited pi.exec ends: an exit code and an output, or an exception
ExecOk(stdout) == [status |-> "resolved", code |-> 0, stdout |-> stdout]

ExecFailed == [status |-> "resolved", code |-> 1, stdout |-> <<>>]

ExecThrew == [status |-> "rejected"]

\* What gh prints after creating a gist: its URL, or nothing
GistUrl == <<"h", "/", "u", "/", "I", "D">>

GistOutputs == { GistUrl \o <<"\n">>, <<"\n">> }

\* An invocation of the handler before its first statement
Handler(hasUI, session) ==
  [pc |-> "start", hasUI |-> hasUI, header |-> session.header, branch |-> session.entries,
   auth |-> Pending, html |-> Pending, wrote |-> FALSE, read |-> Pending,
   gh |-> Pending, unlink |-> "none", notice |-> "none", outcome |-> Pending]

\* return, and an exception that leaves the handler
finish(p, notice) == [p EXCEPT !.pc = "done", !.notice = notice, !.outcome = Resolved("void")]

fail(p) == [p EXCEPT !.pc = "done", !.outcome = Rejected]

\* The handler up to its first await: the UI check and the branch check
startHandler(p) ==
  IF ~p.hasUI THEN finish(p, "requires-ui")
  ELSE IF Len(p.branch) = 0 THEN finish(p, "nothing-to-publish")
  ELSE [p EXCEPT !.pc = "authCheck"]

\* After gh auth status
afterAuthCheck(p, result) ==
  IF result.status = "rejected" THEN fail([p EXCEPT !.auth = result])
  ELSE IF result.code # 0 THEN finish([p EXCEPT !.auth = result], "gh-unavailable")
  ELSE [p EXCEPT !.auth = result, !.pc = "generateTitle", !.notice = "generating-title"]

\* After generateTitle: the payload is built and handed to the renderer
afterTitle(p, t) ==
  [p EXCEPT !.pc = "renderSession", !.notice = "rendering",
            !.html = renderSession(buildPublishedSession(p.header, p.branch, t))]

\* After gh gist create, with a slip: a failure returns without the cleanup.
afterGistCreateLeavesFile(p, result) ==
  IF result.status = "rejected" THEN fail([p EXCEPT !.gh = result])
  ELSE IF result.code # 0 THEN finish([p EXCEPT !.gh = result], "gist-failed")
  ELSE IF Split(Trim(result.stdout), "/")[Len(Split(Trim(result.stdout), "/"))] = <<>>
       THEN finish([p EXCEPT !.gh = result], "gist-id-unparsable")
  ELSE [p EXCEPT !.gh = result, !.pc = "finally", !.notice = "published"]

\* After gh gist create: the body of the try block up to its return or its
\* exception, which the finally block follows
afterGistCreate(p, result) ==
  IF result.status = "rejected" THEN [p EXCEPT !.gh = result, !.pc = "finally"]
  ELSE IF result.code # 0 THEN [p EXCEPT !.gh = result, !.pc = "finally", !.notice = "gist-failed"]
  ELSE IF Split(Trim(result.stdout), "/")[Len(Split(Trim(result.stdout), "/"))] = <<>>
       THEN [p EXCEPT !.gh = result, !.pc = "finally", !.notice = "gist-id-unparsable"]
  ELSE [p EXCEPT !.gh = result, !.pc = "finally", !.notice = "published"]

\* After unlink(tmpFile).catch(() => {}): the handler ends as its try block did
afterUnlink(p, removed) ==
  [p EXCEPT !.pc = "done", !.unlink = IF removed THEN "removed" ELSE "failed",
            !.outcome = IF p.gh.status = "rejected" THEN Rejected ELSE Resolved("void")]

handlerQuiet == <<transformVars, helperArgs, helperResult, legacy, titleCall>>

StartHandler(i) ==
  /\ publishers[i].pc = "start"
  /\ publishers' = [publishers EXCEPT ![i] = startHandler(@)]
  /\ UNCHANGED <<handlerQuiet, tmpFile, outFiles, gists>>

AuthCheckEnds(i) ==
  /\ publishers[i].pc = "authCheck"
  /\ \E result \in {ExecOk(<<>>), ExecFailed, ExecThrew} :
        publishers' = [publishers EXCEPT ![i] = afterAuthCheck(@, result)]
  /\ UNCHANGED <<handlerQuiet, tmpFile, outFiles, gists>>

\* generateTitle does not reject
TitleEnds(i) ==
  /\ publishers[i].pc = "generateTitle"
  /\ \E t \in Titles : publishers' = [publishers EXCEPT ![i] = afterTitle(@, t)]
  /\ UNCHANGED <<handlerQuiet, tmpFile, outFiles, gists>>

\* renderSession and mkdir end
RenderEnds(i) ==
  /\ publishers[i].pc = "renderSession"
  /\ \E ok \in BOOLEAN :
        publishers' = [publishers EXCEPT ![i] = IF ok THEN [@ EXCEPT !.pc = "writeLocal"]
                                                 ELSE fail(@)]
  /\ UNCHANGED <<handlerQuiet, tmpFile, outFiles, gists>>

\* writeFile(localPath, html)
WriteLocal(i) ==
  /\ publishers[i].pc = "writeLocal"
  /\ \E ok \in BOOLEAN :
        IF ok
        THEN /\ outFiles' = {f \in outFiles : f.name # slugOf(publishers[i].header.id)}
                              \cup {[name |-> slugOf(publishers[i].header.id),
                                     content |-> publishers[i].html]}
             /\ publishers' = [publishers EXCEPT ![i].pc = "writeTemp"]
        ELSE /\ outFiles' = outFiles
             /\ publishers' = [publishers EXCEPT ![i] = fail(@)]
  /\ UNCHANGED <<handlerQuiet, tmpFile, gists>>

\* writeFile(tmpFile, html), then gh gist create is started
WriteTemp(i) ==
  /\ publishers[i].pc = "writeTemp"
  /\ \E ok \in BOOLEAN :
        IF ok
        THEN /\ tmpFile' = File(publishers[i].html)
             /\ publishers' = [publishers EXCEPT ![i].pc = "gistCreate", ![i].wrote = TRUE,
                                                 ![i].notice = "creating-gist"]
        ELSE /\ tmpFile' = tmpFile
             /\ publishers' = [publishers EXCEPT ![i] = fail(@)]
  /\ UNCHANGED <<handlerQuiet, outFiles, gists>>

\* gh opens the file it was given
GhReads(i) ==
  /\ publishers[i].pc = "gistCreate"
  /\ publishers[i].read = Pending
  /\ publishers' = [publishers EXCEPT ![i].read = tmpFile]
  /\ UNCHANGED <<handlerQuiet, tmpFile, outFiles, gists>>

\* gh uploads what it read and prints the URL of the gist, or prints nothing
GhCreates(i) ==
  /\ publishers[i].pc = "gistCreate"
  /\ publishers[i].read # Pending /\ publishers[i].read.exists
  /\ gists' = Append(gists, [by |-> i, content |-> publishers[i].read.content])
  /\ \E stdout \in GistOutputs :
        publishers' = [publishers EXCEPT ![i] = afterGistCreate(@, ExecOk(stdout))]
  /\ UNCHANGED <<handlerQuiet, tmpFile, outFiles>>

\* gh exits non-zero, or the call throws
GhFails(i) ==
  /\ publishers[i].pc = "gistCreate"
  /\ \E result \in {ExecFailed, ExecThrew} :
        publishers' = [publishers EXCEPT ![i] = afterGistCreate(@, result)]
  /\ UNCHANGED <<handlerQuiet, tmpFile, outFiles, gists>>

\* unlink(tmpFile): the file goes, or the call fails and the failure is dropped
Unlink(i) ==
  /\ publishers[i].pc = "finally"
  /\ \E ok \in BOOLEAN :
        LET removed == ok /\ tmpFile.exists
        IN  /\ tmpFile' = IF removed THEN Absent ELSE tmpFile
            /\ publishers' = [publishers EXCEPT ![i] = afterUnlink(@, removed)]
  /\ UNCHANGED <<handlerQuiet, outFiles, gists>>

NextPublish ==
  \E i \in DOMAIN publishers :
    \/ StartHandler(i)
    \/ AuthCheckEnds(i)
    \/ TitleEnds(i)
    \/ RenderEnds(i)
    \/ WriteLocal(i)
    \/ WriteTemp(i)
    \/ GhReads(i)
    \/ GhCreates(i)
    \/ GhFails(i)
    \/ Unlink(i)

\* Sessions to publish: the sessions at hand, and one without a conversation
PublishSessions == Sessions \cup { [header |-> Header, entries |-> <<>>] }

\* One invocation of the handler
InitPublish ==
  /\ TransformIdle
  /\ HelperIdle
  /\ legacy = NotCalled
  /\ TitleIdle
  /\ publishers \in { <<Handler(hasUI, session)>> :
                         hasUI \in BOOLEAN, session \in PublishSessions }
  /\ tmpFile = Absent
  /\ outFiles = {}
  /\ gists = <<>>

SpecPublish == InitPublish /\ [][NextPublish]_vars

\* The invocation passed the three checks
PassedChecks(p) == p.hasUI /\ Len(p.branch) > 0 /\ p.auth = ExecOk(<<>>)

AtGistStep(p) == p.pc \in {"gistCreate", "finally"} \/ p.gh # Pending

\* C27: once the handler wrote the temp file it does not finish without having
\* called unlink on it, whether the gist was created, gh exited non-zero, the
\* gist id could not be parsed or the gh call threw; after a successful unlink
\* the file is gone, and a failed unlink changes nothing about how the handler
\* ends.  The handler gets to the gist step only after the UI check, the
\* branch check and the gh auth check passed, and when one of them fails it has
\* written no file.
C27_TempFileRemovedOnEveryPath ==
  \A i \in DOMAIN publishers :
    LET p == publishers[i]
    IN  /\ p.pc = "done" /\ p.wrote => p.unlink # "none"
        /\ p.pc = "done" /\ p.unlink = "removed" => tmpFile = Absent
        /\ p.pc = "done" /\ p.wrote =>
              p.outcome = IF p.gh = ExecThrew THEN Rejected ELSE Resolved("void")
        /\ AtGistStep(p) \/ p.wrote => PassedChecks(p)
        /\ p.pc = "done" /\ ~PassedChecks(p) =>
              ~p.wrote /\ tmpFile = Absent /\ outFiles = {}

\* The handler wrote the temp file, the gh call threw, unlink removed the file
\* and the handler ended with the exception.
C27_Witness ==
  /\ Len(publishers) = 1
  /\ publishers[1].pc = "done"
  /\ publishers[1].wrote
  /\ publishers[1].gh = ExecThrew
  /\ publishers[1].unlink = "removed"
  /\ publishers[1].outcome = Rejected
  /\ tmpFile = Absent

----------------------------------------------------------------------------
(* The older buildPublishedSession, which takes the messages *)

\* One iteration of the loop that indexes the tool results
legacyResult(toolResults, msg) ==
  IF msg.role = "toolResult" /\ "toolCallId" \in DOMAIN msg
  THEN MapSet(toolResults, msg.toolCallId, msg)
  ELSE toolResults

RECURSIVE legacyResults(_, _, _)
legacyResults(toolResults, messages, i) ==
  IF i > Len(messages) THEN toolResults
  ELSE legacyResults(legacyResult(toolResults, messages[i]), messages, i + 1)

\* legacySplitMessage with a slip: a user message is pushed onto `current`
\* instead of replacing it.
legacySplitMessageKeepsCurrent(st, msg) ==
  IF msg.role = "user"
  THEN [rawTurns |-> IF st.current # <<>> THEN Append(st.rawTurns, st.current)
                     ELSE st.rawTurns,
        current  |-> Append(st.current, msg)]
  ELSE [st EXCEPT !.current = Append(@, msg)]

\* One iteration of the loop that splits the messages into raw turns
legacySplitMessage(st, msg) ==
  IF msg.role = "user"
  THEN [rawTurns |-> IF st.current # <<>> THEN Append(st.rawTurns, st.current)
                     ELSE st.rawTurns,
        current  |-> <<msg>>]
  ELSE [st EXCEPT !.current = Append(@, msg)]

RECURSIVE legacySplitMessages(_, _, _)
legacySplitMessages(st, messages, i) ==
  IF i > Len(messages) THEN st
  ELSE legacySplitMessages(legacySplitMessage(st, messages[i]), messages, i + 1)

legacySplit(messages) ==
  LET st == legacySplitMessages([rawTurns |-> <<>>, current |-> <<>>], messages, 1)
  IN  IF st.current # <<>> THEN Append(st.rawTurns, st.current) ELSE st.rawTurns

\* The body of the loop over the raw turns, for a raw turn that starts with a
\* user message: the turn and its unrounded cost.  The walk over the turn's
\* messages and blocks is that of the later builder, statement by statement.
legacyTurn(rawTurn, toolResults, cwd) ==
  LET userMsg == rawTurn[1]
      acc     == sessionMessages([steps |-> <<>>, inputTokens |-> 0, outputTokens |-> 0,
                                  cost |-> 0, model |-> ""],
                                 rawTurn, 1, toolResults, cwd)
      maxTs   == MaxTimestamp(rawTurn, 1, userMsg.timestamp)
  IN  [turn |-> [prompt |-> sessionPrompt(userMsg), steps |-> acc.steps, model |-> acc.model,
                 inputTokens |-> acc.inputTokens, outputTokens |-> acc.outputTokens,
                 cost |-> roundCost(acc.cost),
                 elapsed |-> RoundDiv(maxTs - userMsg.timestamp, MsPerSecond)],
       cost |-> acc.cost]

RECURSIVE legacyTurns(_, _, _, _, _)
legacyTurns(out, rawTurns, i, toolResults, cwd) ==
  IF i > Len(rawTurns) THEN out
  ELSE IF rawTurns[i][1].role # "user"
       THEN legacyTurns(out, rawTurns, i + 1, toolResults, cwd)
       ELSE LET t == legacyTurn(rawTurns[i], toolResults, cwd)
            IN  legacyTurns([turns |-> Append(out.turns, t.turn),
                             totalCost |-> out.totalCost + t.cost],
                            rawTurns, i + 1, toolResults, cwd)

buildPublishedSessionFromMessages(h, messages, t) ==
  LET out == legacyTurns([turns |-> <<>>, totalCost |-> 0], legacySplit(messages), 1,
                         legacyResults(EmptyMap, messages, 1), h.cwd)
  IN  [session |-> [id |-> h.id, title |-> t, date |-> h.timestamp,
                    totalCost |-> roundCost(out.totalCost)],
       turns |-> out.turns]

IsMessageEntry(e) == e.type = "message"

\* branch.filter((entry) => entry.type === "message").map((entry) => entry.message)
messagesOf(es) ==
  [i \in 1..Len(SelectSeq(es, IsMessageEntry)) |-> SelectSeq(es, IsMessageEntry)[i].message]

\* Entries for the two builders: levels and another entry kind, prompts, an
\* assistant message with a call, one without usage, an edit call, results
LegacyEntries ==
  { LevelChange("high"), LevelChange("off"), ModelChange,
    MessageEntry(UserMsg(StringContent(<<"p">>), 1000)),
    MessageEntry(UserMsg(BlockContent(<<Text(<<"q">>), Text(<<"r">>)>>), 3000)),
    MessageEntry(AssistantMsg(<<Thinking(<<" ", "t">>), Text(<<"a">>), BashCall>>, "m1",
                              Usage(100, 50, 15), 5000)),
    MessageEntry(AssistantNoUsage(<<ToolCall("c4", "edit",
                   EditArgs(<<"/", "w", "/", "f">>, <<"a">>, <<"b">>))>>, "m2", 4000)),
    MessageEntry(ToolResultMsg("c1", FALSE, <<Text(<<"o">>)>>, 10000)),
    MessageEntry(ToolResultMsg("c4", TRUE, <<Text(<<"e">>)>>, 7500)) }

MaxLegacyLog == 4

InitLegacy ==
  /\ header = Header
  /\ title = "Test"
  /\ entries \in SeqsUpTo(LegacyEntries, MaxLegacyLog)
  /\ trace = NotCalled
  /\ published = NotCalled
  /\ locals = FreshScan
  /\ invocations = <<>>
  /\ RestIdle

BuildFromMessages ==
  /\ legacy = NotCalled
  /\ legacy' = Returned(buildPublishedSessionFromMessages(header, messagesOf(entries), title))
  /\ UNCHANGED <<transformVars, helperArgs, helperResult, titleCall, publishers, tmpFile,
                 outFiles, gists>>

NextLegacy == BuildPublishedSession \/ BuildFromMessages

SpecLegacy == InitLegacy /\ [][NextLegacy]_vars

LegacyDone == legacy.status = "returned"

HasLevelChange == \E i \in 1..Len(entries) : entries[i].type = "thinking_level_change"

\* A document with the reasoning level taken out of its turns
WithoutLevels(doc) ==
  [doc EXCEPT !.turns =
     [k \in 1..Len(doc.turns) |->
        [f \in DOMAIN doc.turns[k] \ {"thinkingLevel"} |-> doc.turns[k][f]]]]

\* C28: for a log without thinking-level-change entries the builder that takes
\* the entries returns the document the older builder returns for the log's
\* message payloads in order; with level changes in the log the two documents
\* differ in nothing but the thinkingLevel field of the turns.
C28_BuildersAgreeUpToLevels ==
  PublishedDone /\ LegacyDone =>
    /\ ~HasLevelChange => published.value = legacy.value
    /\ WithoutLevels(published.value) = legacy.value

\* Both builders ran on a log with a level change before the prompt: the later
\* builder's turn carries the level, the older builder's turn does not, and
\* without the level the documents are the same.
C28_Witness ==
  /\ PublishedDone /\ LegacyDone
  /\ Len(entries) = 4
  /\ entries[1] = LevelChange("high")
  /\ entries[2] = MessageEntry(UserMsg(StringContent(<<"p">>), 1000))
  /\ entries[4] = MessageEntry(ToolResultMsg("c4", TRUE, <<Text(<<"e">>)>>, 7500))
  /\ Len(published.value.turns) = 1
  /\ Len(published.value.turns[1].steps) = 1
  /\ HasLevel(published.value.turns[1])
  /\ ~HasLevel(legacy.value.turns[1])
  /\ published.value # legacy.value

----------------------------------------------------------------------------
(* The two builders side by side *)

\* Well-formed entries: levels and another entry kind, prompts as string and as
\* blocks, assistant messages with usage, model and calls, results
AgreeEntries ==
  { LevelChange("high"), LevelChange("off"), ModelChange,
    MessageEntry(UserMsg(StringContent(<<"p">>), 1000)),
    MessageEntry(UserMsg(BlockContent(<<Text(<<>>), Text(<<"q">>), Image, Text(<<"r">>)>>), 3000)),
    MessageEntry(AssistantMsg(<<Thinking(<<"t">>), BashCall, Text(<<"a">>), ReadCall>>, "m1",
                              Usage(100, 50, 15), 5000)),
    MessageEntry(AssistantMsg(<<Text(<<"b">>)>>, "m2", Usage(200, 80, 4), 500)),
    MessageEntry(ToolResultMsg("c1", TRUE, <<Text(<<"e">>)>>, 10000)),
    MessageEntry(ToolResultMsg("c2", FALSE, <<Text(<<"o">>)>>, 7499)) }

MaxAgreeLog == 4

InitAgree ==
  /\ header = Header
  /\ title = "Test"
  /\ entries \in SeqsUpTo(AgreeEntries, MaxAgreeLog)
  /\ trace = NotCalled
  /\ published = NotCalled
  /\ locals = FreshScan
  /\ invocations = <<>>
  /\ RestIdle

SpecAgree == InitAgree /\ [][Next]_vars

\* The name and the flag of each step of a kind, in order
CallFlags(steps, kind) ==
  LET picked == SelectSeq(steps, LAMBDA st : st.type = kind)
  IN  [j \in 1..Len(picked) |-> <<picked[j].name, picked[j].ok>>]

\* C29: on a log of well-formed entries buildTrace and the buildPublishedSession
\* that takes the entries emit the same number of turns and, turn by turn, the
\* same prompt, the same reasoning level or none, the same model, the same
\* input and output token sums, the same elapsed seconds and the same tool
\* calls in the same order with the same ok flags.
C29_BuildersAgreeOnTurns ==
  TraceDone /\ PublishedDone =>
    /\ Len(trace.value.turns) = Len(published.value.turns)
    /\ \A k \in 1..Len(trace.value.turns) :
          LET t == trace.value.turns[k]
              u == published.value.turns[k]
          IN  /\ t.prompt = u.prompt
              /\ HasLevel(t.metadata) <=> HasLevel(u)
              /\ HasLevel(u) => t.metadata.thinkingLevel = u.thinkingLevel
              /\ t.metadata.model = u.model
              /\ t.metadata.inputTokens = u.inputTokens
              /\ t.metadata.outputTokens = u.outputTokens
              /\ t.metadata.elapsed = u.elapsed
              /\ CallFlags(t.completion.steps, "action") = CallFlags(u.steps, "tool")

\* Both builders ran on a level change, a prompt, an assistant message with two
\* calls and an errored result for the first: one turn each, with the level,
\* the model, the tokens, nine seconds, a failed bash call and a read call.
C29_Witness ==
  /\ TraceDone /\ PublishedDone
  /\ Len(entries) = 4
  /\ entries[1] = LevelChange("high")
  /\ entries[2] = MessageEntry(UserMsg(StringContent(<<"p">>), 1000))
  /\ entries[4] = MessageEntry(ToolResultMsg("c1", TRUE, <<Text(<<"e">>)>>, 10000))
  /\ Len(published.value.turns) = 1
  /\ published.value.turns[1].thinkingLevel = "high"
  /\ published.value.turns[1].model = "m1"
  /\ published.value.turns[1].inputTokens = 100
  /\ published.value.turns[1].elapsed = 9
  /\ CallFlags(published.value.turns[1].steps, "tool") = << <<"bash", FALSE>>, <<"read", TRUE>> >>
  /\ trace.value.turns[1].metadata.model = "m1"

----------------------------------------------------------------------------
(* Two invocations of the /publish handler at once *)

\* Two sessions with a conversation each, in one pi or in two that share the
\* temp directory
OverlapSessions ==
  { [header |-> Header, entries |-> <<PromptEntry>>],
    [header |-> OtherHeader, entries |-> <<LevelChange("high"), PromptEntry>>] }

InitOverlap ==
  /\ TransformIdle
  /\ HelperIdle
  /\ legacy = NotCalled
  /\ TitleIdle
  /\ publishers \in { <<Handler(TRUE, first), Handler(TRUE, second)>> :
                         first \in OverlapSessions, second \in OverlapSessions }
  /\ tmpFile = Absent
  /\ outFiles = {}
  /\ gists = <<>>

SpecOverlap == InitOverlap /\ [][NextPublish]_vars

\* The invocation wrote the temp file and its gh gist create has not ended
Uploading(p) == p.wrote /\ p.pc = "gistCreate"

\* C30: two overlapping invocations of the handler do not interfere.  Every
\* gist holds the HTML rendered from the session of the invocation that
\* uploaded it, and while an invocation is between writing the temp file and
\* the end of its gist upload the file is there with the content it wrote: the
\* other invocation has neither overwritten nor removed it.
C30_InvocationsDoNotInterfere ==
  /\ \A g \in 1..Len(gists) : gists[g].content = publishers[gists[g].by].html
  /\ \A i \in DOMAIN publishers :
        Uploading(publishers[i]) => tmpFile = File(publishers[i].html)

\* The first invocation's gist holds the page of the second invocation's
\* session, which is another session.
C30_Witness ==
  /\ Len(publishers) = 2
  /\ publishers[1].header # publishers[2].header
  /\ Len(gists) > 0
  /\ gists[1].by = 1
  /\ gists[1].content = publishers[2].html
  /\ gists[1].content # publishers[1].html

\* The second invocation removed the temp file while the first was uploading:
\* gh of the first found no file.
C30_RemovedWhileUploading ==
  /\ Len(publishers) = 2
  /\ Uploading(publishers[1])
  /\ publishers[1].read = Absent
  /\ publishers[2].unlink = "removed"

====
